---- MODULE Spec2Model ----
(***************************************************************************)
(* Verification model of SteelMC's world-generation core: the density      *)
(* function transpiler (steel-utils/src/density/transpiler.rs), the column *)
(* cache it generates, and the climate / biome samplers that drive it.     *)
(***************************************************************************)
EXTENDS Integers, Sequences, FiniteSets, TLC

VARIABLES
    pc,        \* phase: "input" -> "analyzed" -> "generated" -> "run" or "panicked"
    input,     \* TranspilerInput: [registry, router_entries]
    ctx,       \* TranspileContext after analyze
    gen,       \* the generated code: named functions, column cache layout, routers
    sources,   \* the BiomeSourceKind values that were constructed
    samplers,  \* the live ChunkBiomeSamplers (column cache, warm-start slot)
    last,      \* the last sample call on the live sampler: where, what it returned,
               \* what ensure did
    noise_params  \* the table get_noise_parameters() returns: noise id -> parameters

vars == <<pc, input, ctx, gen, sources, samplers, last, noise_params>>

(***************************************************************************)
(* Small helpers                                                           *)
(***************************************************************************)
Range(s) == {s[i] : i \in DOMAIN s}

Max2(a, b) == IF a >= b THEN a ELSE b

Min2(a, b) == IF a <= b THEN a ELSE b

RECURSIVE SortedSeq(_)
\* The elements of a set of integers in increasing order: the iteration order
\* of a BTreeSet / BTreeMap whose keys the model numbers in key order.
SortedSeq(S) ==
    IF S = {} THEN <<>>
    ELSE LET m == CHOOSE a \in S : \A b \in S : a <= b
         IN <<m>> \o SortedSeq(S \ {m})

IndexOf(s, e) == CHOOSE i \in DOMAIN s : s[i] = e

(***************************************************************************)
(* Numbers.  f64 / f32 values are modelled as exact rationals <<n, d>> in  *)
(* lowest terms with d > 0; float rounding is not modelled.                *)
(***************************************************************************)
Abs(a) == IF a < 0 THEN -a ELSE a

RECURSIVE GCD(_, _)
GCD(a, b) == IF b = 0 THEN a ELSE GCD(b, a % b)

Q(n, d) ==
    LET s == IF d < 0 THEN -1 ELSE 1
        g == GCD(Abs(n), Abs(d))
    IN <<(s * n) \div g, (s * d) \div g>>

Zero == <<0, 1>>

One == <<1, 1>>

I(n) == <<n, 1>>

QAdd(a, b) == Q(a[1] * b[2] + b[1] * a[2], a[2] * b[2])

QSub(a, b) == Q(a[1] * b[2] - b[1] * a[2], a[2] * b[2])

QMul(a, b) == Q(a[1] * b[1], a[2] * b[2])

QNeg(a) == <<-a[1], a[2]>>

QLt(a, b) == a[1] * b[2] < b[1] * a[2]

QLe(a, b) == a[1] * b[2] <= b[1] * a[2]

\* Division; 1.0 / 0.0 is an infinity in f64, which the model keeps apart
\* from every finite value as <<1, 0>> or <<-1, 0>>.
QDiv(a, b) ==
    IF b[1] = 0 THEN <<IF a[1] < 0 THEN -1 ELSE 1, 0>>
    ELSE Q(a[1] * b[2], a[2] * b[1])

QAbs(a) == <<Abs(a[1]), a[2]>>

QMin(a, b) == IF QLt(b, a) THEN b ELSE a

QMax(a, b) == IF QLt(a, b) THEN b ELSE a

QClamp(v, lo, hi) == IF QLt(v, lo) THEN lo ELSE IF QLt(hi, v) THEN hi ELSE v

\* Truncation toward zero, as an `as i64` cast does.
QTrunc(a) ==
    IF a[1] >= 0 THEN a[1] \div a[2] ELSE -((-a[1]) \div a[2])

(***************************************************************************)
(* DensityFunction trees (steel-utils/src/density/types.rs).               *)
(* Registry ids are numbered in the lexicographic order of their strings,  *)
(* so that integer order is BTreeMap order.                                *)
(***************************************************************************)
Constant(v) == [kind |-> "Constant", value |-> v]

Reference(id) == [kind |-> "Reference", id |-> id]

YClampedGradient(fy, ty, fv, tv) ==
    [kind |-> "YClampedGradient", from_y |-> fy, to_y |-> ty,
     from_value |-> fv, to_value |-> tv]

Noise(n, xz, ys) ==
    [kind |-> "Noise", noise_id |-> n, xz_scale |-> xz, y_scale |-> ys]

ShiftedNoise(sx, sy, sz, xz, ys, n) ==
    [kind |-> "ShiftedNoise", shift_x |-> sx, shift_y |-> sy, shift_z |-> sz,
     xz_scale |-> xz, y_scale |-> ys, noise_id |-> n]

ShiftA(n) == [kind |-> "ShiftA", noise_id |-> n]

ShiftB(n) == [kind |-> "ShiftB", noise_id |-> n]

Shift(n) == [kind |-> "Shift", noise_id |-> n]

TwoArgumentSimple(op, a, b) ==
    [kind |-> "TwoArgumentSimple", op |-> op, argument1 |-> a, argument2 |-> b]

Mapped(op, a) == [kind |-> "Mapped", op |-> op, input |-> a]

Clamp(a, lo, hi) == [kind |-> "Clamp", input |-> a, min |-> lo, max |-> hi]

RangeChoice(a, lo, hi, in, out) ==
    [kind |-> "RangeChoice", input |-> a, min_inclusive |-> lo,
     max_exclusive |-> hi, when_in_range |-> in, when_out_of_range |-> out]

BlendedNoise(xzs, ys, xzf, yf, smear) ==
    [kind |-> "BlendedNoise", xz_scale |-> xzs, y_scale |-> ys, xz_factor |-> xzf,
     y_factor |-> yf, smear_scale_multiplier |-> smear]

WeirdScaledSampler(a, n, mapper) ==
    [kind |-> "WeirdScaledSampler", input |-> a, noise_id |-> n,
     rarity_value_mapper |-> mapper]

EndIslandsLeaf == [kind |-> "EndIslands"]

BlendAlpha == [kind |-> "BlendAlpha"]

BlendOffset == [kind |-> "BlendOffset"]

BlendDensity(a) == [kind |-> "BlendDensity", input |-> a]

Marker(k, a) == [kind |-> "Marker", mkind |-> k, wrapped |-> a]

\* CubicSpline: a coordinate function and points (location, value, derivative);
\* a point's value is a constant or a nested spline.
CubicSpline(coord, points) == [coordinate |-> coord, points |-> points]

SplinePoint(loc, val, der) == [location |-> loc, value |-> val, derivative |-> der]

SplineConstant(c) == [kind |-> "Constant", value |-> c]

SplineNested(s) == [kind |-> "Spline", spline |-> s]

Spline(s) == [kind |-> "Spline", spline |-> s]

(***************************************************************************)
(* Helper functions of the transpiler                                      *)
(***************************************************************************)
RECURSIVE uses_y(_)
RECURSIVE uses_y_spline(_)

\* transpiler.rs uses_y: does the subtree directly use the y coordinate
\* (References are not followed).
uses_y(df) ==
    CASE df.kind \in {"YClampedGradient", "Shift", "BlendedNoise"} -> TRUE
      [] df.kind = "Noise" -> df.y_scale # Zero
      [] df.kind = "ShiftedNoise" -> df.y_scale # Zero \/ uses_y(df.shift_y)
      [] df.kind = "WeirdScaledSampler" -> uses_y(df.input)
      [] df.kind = "TwoArgumentSimple" -> uses_y(df.argument1) \/ uses_y(df.argument2)
      [] df.kind \in {"Mapped", "Clamp", "BlendDensity"} -> uses_y(df.input)
      [] df.kind = "RangeChoice" ->
            uses_y(df.input) \/ uses_y(df.when_in_range) \/ uses_y(df.when_out_of_range)
      [] df.kind = "Marker" -> uses_y(df.wrapped)
      [] df.kind = "Spline" -> uses_y_spline(df.spline)
      [] OTHER -> FALSE

uses_y_spline(spline) ==
    \/ uses_y(spline.coordinate)
    \/ \E i \in DOMAIN spline.points :
          /\ spline.points[i].value.kind = "Spline"
          /\ uses_y_spline(spline.points[i].value.spline)

is_flat_cached(df) ==
    df.kind = "Marker" /\ df.mkind \in {"FlatCache", "Cache2D"}

RECURSIVE unwrap_markers(_)
unwrap_markers(df) ==
    IF df.kind = "Marker" THEN unwrap_markers(df.wrapped) ELSE df

RECURSIVE collect_refs_inner(_, _)
RECURSIVE collect_spline_refs(_, _)
RECURSIVE collect_spline_points(_, _, _)

\* The distinct reference ids of a subtree, in first-occurrence order.
collect_refs_inner(df, refs) ==
    CASE df.kind = "Reference" ->
            IF df.id \in Range(refs) THEN refs ELSE Append(refs, df.id)
      [] df.kind = "Marker" -> collect_refs_inner(df.wrapped, refs)
      [] df.kind = "TwoArgumentSimple" ->
            collect_refs_inner(df.argument2, collect_refs_inner(df.argument1, refs))
      [] df.kind \in {"Mapped", "Clamp", "BlendDensity", "WeirdScaledSampler"} ->
            collect_refs_inner(df.input, refs)
      [] df.kind = "RangeChoice" ->
            collect_refs_inner(df.when_out_of_range,
                collect_refs_inner(df.when_in_range,
                    collect_refs_inner(df.input, refs)))
      [] df.kind = "ShiftedNoise" ->
            collect_refs_inner(df.shift_z,
                collect_refs_inner(df.shift_y,
                    collect_refs_inner(df.shift_x, refs)))
      [] df.kind = "Spline" -> collect_spline_refs(df.spline, refs)
      [] OTHER -> refs

collect_spline_points(points, i, refs) ==
    IF i > Len(points) THEN refs
    ELSE collect_spline_points(points, i + 1,
            IF points[i].value.kind = "Spline"
            THEN collect_spline_refs(points[i].value.spline, refs)
            ELSE refs)

collect_spline_refs(spline, refs) ==
    collect_spline_points(spline.points, 1,
        collect_refs_inner(spline.coordinate, refs))

collect_references(df) == collect_refs_inner(df, <<>>)

(***************************************************************************)
(* Phase 1: analysis (TranspileContext::analyze)                           *)
(* The walk state is the part of the context walk_df mutates: used_names,  *)
(* noise_ids, and (as instrumentation) walked, the ids whose definition    *)
(* the walk recursed into, in order.                                       *)
(***************************************************************************)
\* Keeps only the noise id inserted last.
AddNoise_overwrites(st, n) == [st EXCEPT !.noise_ids = {n}]

AddNoise(st, n) == [st EXCEPT !.noise_ids = @ \cup {n}]

RECURSIVE walk_df(_, _, _)
RECURSIVE walk_spline(_, _, _)
RECURSIVE walk_spline_points(_, _, _, _)

\* A walk_df that forgets the shift_z operand of a shifted noise.
walk_df_skip_shift_z(st, df, registry) ==
    CASE df.kind \in {"Constant", "BlendAlpha", "BlendOffset", "EndIslands",
                      "YClampedGradient"} -> st
      [] df.kind \in {"Noise", "ShiftA", "ShiftB", "Shift"} -> AddNoise(st, df.noise_id)
      [] df.kind = "ShiftedNoise" ->
            AddNoise(walk_df(walk_df(st, df.shift_x, registry),
                             df.shift_y, registry), df.noise_id)
      [] df.kind = "TwoArgumentSimple" ->
            walk_df(walk_df(st, df.argument1, registry), df.argument2, registry)
      [] df.kind \in {"Mapped", "Clamp", "BlendDensity"} -> walk_df(st, df.input, registry)
      [] df.kind = "RangeChoice" ->
            walk_df(walk_df(walk_df(st, df.input, registry),
                            df.when_in_range, registry),
                    df.when_out_of_range, registry)
      [] df.kind = "Spline" -> walk_spline(st, df.spline, registry)
      [] df.kind = "BlendedNoise" -> AddNoise(st, "offset")
      [] df.kind = "WeirdScaledSampler" ->
            AddNoise(walk_df(st, df.input, registry), df.noise_id)
      [] df.kind = "Marker" -> walk_df(st, df.wrapped, registry)
      [] df.kind = "Reference" ->
            IF df.id \in st.used_names THEN st
            ELSE LET st1 == [st EXCEPT !.used_names = @ \cup {df.id}]
                 IN IF df.id \in DOMAIN registry
                    THEN walk_df([st1 EXCEPT !.walked = Append(@, df.id)],
                                 registry[df.id], registry)
                    ELSE st1

\* transpiler.rs walk_df: depth-first walk that records noise ids and, the
\* first time a Reference is met, marks it used and walks its definition.
walk_df(st, df, registry) ==
    CASE df.kind \in {"Constant", "BlendAlpha", "BlendOffset", "EndIslands",
                      "YClampedGradient"} -> st
      [] df.kind \in {"Noise", "ShiftA", "ShiftB", "Shift"} -> AddNoise(st, df.noise_id)
      [] df.kind = "ShiftedNoise" ->
            AddNoise(walk_df(walk_df(walk_df(st, df.shift_x, registry),
                                     df.shift_y, registry),
                             df.shift_z, registry), df.noise_id)
      [] df.kind = "TwoArgumentSimple" ->
            walk_df(walk_df(st, df.argument1, registry), df.argument2, registry)
      [] df.kind \in {"Mapped", "Clamp", "BlendDensity"} -> walk_df(st, df.input, registry)
      [] df.kind = "RangeChoice" ->
            walk_df(walk_df(walk_df(st, df.input, registry),
                            df.when_in_range, registry),
                    df.when_out_of_range, registry)
      [] df.kind = "Spline" -> walk_spline(st, df.spline, registry)
      [] df.kind = "BlendedNoise" -> AddNoise(st, "offset")
      [] df.kind = "WeirdScaledSampler" ->
            AddNoise(walk_df(st, df.input, registry), df.noise_id)
      [] df.kind = "Marker" -> walk_df(st, df.wrapped, registry)
      [] df.kind = "Reference" ->
            IF df.id \in st.used_names THEN st
            ELSE LET st1 == [st EXCEPT !.used_names = @ \cup {df.id}]
                 IN IF df.id \in DOMAIN registry
                    THEN walk_df([st1 EXCEPT !.walked = Append(@, df.id)],
                                 registry[df.id], registry)
                    ELSE st1

walk_spline_points(st, points, i, registry) ==
    IF i > Len(points) THEN st
    ELSE walk_spline_points(
            IF points[i].value.kind = "Spline"
            THEN walk_spline(st, points[i].value.spline, registry)
            ELSE st,
            points, i + 1, registry)

walk_spline(st, spline, registry) ==
    walk_spline_points(walk_df(st, spline.coordinate, registry),
                       spline.points, 1, registry)

\* Router names in BTreeMap (lexicographic) order.
RouterOrder ==
    <<"continentalness", "depth", "erosion", "final_density", "ridges",
      "temperature", "vegetation">>

RouterNames(router_entries) ==
    SelectSeq(RouterOrder, LAMBDA n : n \in DOMAIN router_entries)

RECURSIVE WalkRoots(_, _, _, _)
\* analyze, lines 123-125: walk every router root, in key order.
WalkRoots(st, names, i, inp) ==
    IF i > Len(names) THEN st
    ELSE WalkRoots(walk_df(st, inp.router_entries[names[i]], inp.registry),
                   names, i + 1, inp)

\* analyze, lines 128-134: the functions wrapped in a flat-cache marker.
ExplicitFlat(used_names, registry) ==
    {n \in used_names : n \in DOMAIN registry /\ is_flat_cached(registry[n])}

\* analyze, lines 148-152: the test the inference loop applies to one name.
InferredFlat(name, flat_cached, registry) ==
    LET inner == unwrap_markers(registry[name])
    IN /\ ~uses_y(inner)
       /\ \A dep \in Range(collect_references(inner)) : dep \in flat_cached

RECURSIVE InferPass(_, _, _, _)
\* One pass of the inference loop over the names in `order`:
\* [flat_cached, changed].
InferPass(acc, order, i, registry) ==
    IF i > Len(order) THEN acc
    ELSE LET name == order[i]
         IN InferPass(
              IF /\ name \notin acc.flat_cached
                 /\ name \in DOMAIN registry
                 /\ InferredFlat(name, acc.flat_cached, registry)
              THEN [flat_cached |-> acc.flat_cached \cup {name}, changed |-> TRUE]
              ELSE acc,
              order, i + 1, registry)

RECURSIVE InferLoop(_, _, _)
\* An inference that stops after the first pass.
InferLoopSinglePass(flat_cached, order, registry) ==
    InferPass([flat_cached |-> flat_cached, changed |-> FALSE],
              order, 1, registry).flat_cached

\* analyze, lines 138-160: repeat passes until one changes nothing.
InferLoop(flat_cached, order, registry) ==
    LET r == InferPass([flat_cached |-> flat_cached, changed |-> FALSE],
                       order, 1, registry)
    IN IF r.changed THEN InferLoop(r.flat_cached, order, registry)
       ELSE r.flat_cached

\* analyze, lines 166-176: the router entries that are flat.
FlatRouters(inp, flat_cached) ==
    {name \in DOMAIN inp.router_entries :
        LET df == inp.router_entries[name]
            inner == unwrap_markers(df)
        IN \/ is_flat_cached(df)
           \/ /\ ~uses_y(inner)
              /\ \A dep \in Range(collect_references(inner)) : dep \in flat_cached}

RECURSIVE topo_visit(_, _, _, _)
RECURSIVE TopoDeps(_, _, _, _, _)

\* A topo_visit that emits a name before its dependencies.
topo_visit_preorder(acc, name, used_names, registry) ==
    IF name \in acc.visited THEN acc
    ELSE LET a1 == [visited |-> acc.visited \cup {name},
                    order |-> Append(acc.order, name)]
         IN IF name \in DOMAIN registry
            THEN TopoDeps(a1, collect_references(registry[name]), 1,
                          used_names, registry)
            ELSE a1

\* transpiler.rs topo_visit: post-order emission.
topo_visit(acc, name, used_names, registry) ==
    IF name \in acc.visited THEN acc
    ELSE LET a1 == [acc EXCEPT !.visited = @ \cup {name}]
             a2 == IF name \in DOMAIN registry
                   THEN TopoDeps(a1, collect_references(registry[name]), 1,
                                 used_names, registry)
                   ELSE a1
         IN [a2 EXCEPT !.order = Append(@, name)]

TopoDeps(acc, deps, i, used_names, registry) ==
    IF i > Len(deps) THEN acc
    ELSE TopoDeps(IF deps[i] \in used_names
                  THEN topo_visit(acc, deps[i], used_names, registry)
                  ELSE acc,
                  deps, i + 1, used_names, registry)

RECURSIVE TopoAll(_, _, _, _, _)
TopoAll(acc, names, i, used_names, registry) ==
    IF i > Len(names) THEN acc
    ELSE TopoAll(topo_visit(acc, names[i], used_names, registry),
                 names, i + 1, used_names, registry)

topological_sort(used_names, registry) ==
    TopoAll([visited |-> {}, order |-> <<>>], SortedSeq(used_names), 1,
            used_names, registry).order

\* TranspileContext::new
NewContext ==
    [noise_ids |-> {}, flat_cached |-> {}, flat_routers |-> {},
     topo_order |-> <<>>, used_names |-> {}, walked |-> <<>>]

\* TranspileContext::analyze
analyze(inp) ==
    LET w == WalkRoots([used_names |-> {}, noise_ids |-> {}, walked |-> <<>>],
                       RouterNames(inp.router_entries), 1, inp)
        flat == InferLoop(ExplicitFlat(w.used_names, inp.registry),
                          SortedSeq(w.used_names), inp.registry)
    IN [noise_ids |-> w.noise_ids,
        flat_cached |-> flat,
        flat_routers |-> FlatRouters(inp, flat),
        topo_order |-> topological_sort(w.used_names, inp.registry),
        used_names |-> w.used_names,
        walked |-> w.walked]

(***************************************************************************)
(* Phase 2: code generation.  Generated Rust expressions are modelled as   *)
(* terms: literals, the variables x / y / z of the enclosing function,     *)
(* reads of column-cache fields, calls of generated 3D functions, noise    *)
(* samples, and the arithmetic the transpiler emits.                       *)
(***************************************************************************)
Lit(v) == [op |-> "lit", value |-> v]

Var(n) == [op |-> "var", name |-> n]

CacheField(id) == [op |-> "cache", id |-> id]

Call3D(id) == [op |-> "call3d", id |-> id]

NoiseCall(field, ax, ay, az) ==
    [op |-> "noise", field |-> field, ax |-> ax, ay |-> ay, az |-> az]

Bin(f, a, b) == [op |-> "bin", f |-> f, a |-> a, b |-> b]

Un(f, a) == [op |-> "un", f |-> f, a |-> a]

Quarter == <<1, 4>>

RECURSIVE gen_expr(_, _, _)
RECURSIVE gen_spline_expr(_, _, _)

\* gen_expr, Reference arm (lines 746-756).
gen_reference(id, flat_cached) ==
    IF id \in flat_cached THEN CacheField(id) ELSE Call3D(id)

\* gen_expr, ShiftedNoise arm (lines 610-640).
gen_shifted_noise(df, is_flat, flat_cached) ==
    LET dx == gen_expr(df.shift_x, is_flat, flat_cached)
        dy == gen_expr(df.shift_y, is_flat, flat_cached)
        dz == gen_expr(df.shift_z, is_flat, flat_cached)
    IN IF is_flat \/ df.y_scale = Zero
       THEN NoiseCall(df.noise_id,
                Bin("add", Bin("mul", Var("x"), Lit(df.xz_scale)), dx),
                Lit(Zero),
                Bin("add", Bin("mul", Var("z"), Lit(df.xz_scale)), dz))
       ELSE NoiseCall(df.noise_id,
                Bin("add", Bin("mul", Var("x"), Lit(df.xz_scale)), dx),
                Bin("add", Bin("mul", Var("y"), Lit(df.y_scale)), dy),
                Bin("add", Bin("mul", Var("z"), Lit(df.xz_scale)), dz))

\* gen_expr, WeirdScaledSampler arm (lines 723-737): the noise is sampled at
\* (x, y, z) / scale whatever is_flat says.
gen_weird_scaled_sampler(df, is_flat, flat_cached) ==
    [op |-> "weird", mapper |-> df.rarity_value_mapper,
     rarity |-> gen_expr(df.input, is_flat, flat_cached),
     field |-> df.noise_id,
     ax |-> Var("x"), ay |-> Var("y"), az |-> Var("z")]

\* transpiler.rs gen_expr: the expression emitted for a density function.
gen_expr(df, is_flat, flat_cached) ==
    CASE df.kind = "Constant" -> Lit(df.value)
      [] df.kind = "YClampedGradient" ->
            [op |-> "map_clamped", a |-> Var("y"),
             from_y |-> df.from_y, to_y |-> df.to_y,
             from_value |-> df.from_value, to_value |-> df.to_value]
      [] df.kind = "Noise" ->
            IF is_flat \/ df.y_scale = Zero
            THEN NoiseCall(df.noise_id, Bin("mul", Var("x"), Lit(df.xz_scale)),
                           Lit(Zero), Bin("mul", Var("z"), Lit(df.xz_scale)))
            ELSE NoiseCall(df.noise_id, Bin("mul", Var("x"), Lit(df.xz_scale)),
                           Bin("mul", Var("y"), Lit(df.y_scale)),
                           Bin("mul", Var("z"), Lit(df.xz_scale)))
      [] df.kind = "ShiftedNoise" -> gen_shifted_noise(df, is_flat, flat_cached)
      [] df.kind = "ShiftA" ->
            Bin("mul", NoiseCall(df.noise_id, Bin("mul", Var("x"), Lit(Quarter)),
                                 Lit(Zero), Bin("mul", Var("z"), Lit(Quarter))),
                Lit(I(4)))
      [] df.kind = "ShiftB" ->
            Bin("mul", NoiseCall(df.noise_id, Bin("mul", Var("z"), Lit(Quarter)),
                                 Bin("mul", Var("x"), Lit(Quarter)), Lit(Zero)),
                Lit(I(4)))
      [] df.kind = "Shift" ->
            IF is_flat
            THEN Bin("mul", NoiseCall(df.noise_id, Bin("mul", Var("x"), Lit(Quarter)),
                                      Lit(Zero), Bin("mul", Var("z"), Lit(Quarter))),
                     Lit(I(4)))
            ELSE Bin("mul", NoiseCall(df.noise_id, Bin("mul", Var("x"), Lit(Quarter)),
                                      Bin("mul", Var("y"), Lit(Quarter)),
                                      Bin("mul", Var("z"), Lit(Quarter))),
                     Lit(I(4)))
      [] df.kind = "TwoArgumentSimple" ->
            Bin(df.op, gen_expr(df.argument1, is_flat, flat_cached),
                gen_expr(df.argument2, is_flat, flat_cached))
      [] df.kind = "Mapped" -> Un(df.op, gen_expr(df.input, is_flat, flat_cached))
      [] df.kind = "Clamp" ->
            [op |-> "clamp", a |-> gen_expr(df.input, is_flat, flat_cached),
             min |-> df.min, max |-> df.max]
      [] df.kind = "RangeChoice" ->
            [op |-> "range_choice",
             v |-> gen_expr(df.input, is_flat, flat_cached),
             min |-> df.min_inclusive, max |-> df.max_exclusive,
             in_range |-> gen_expr(df.when_in_range, is_flat, flat_cached),
             out_range |-> gen_expr(df.when_out_of_range, is_flat, flat_cached)]
      [] df.kind = "Spline" -> gen_spline_expr(df.spline, is_flat, flat_cached)
      [] df.kind = "BlendedNoise" ->
            Bin("mul",
                NoiseCall("offset",
                    Bin("mul", Var("x"), Lit(QDiv(df.xz_scale, df.xz_factor))),
                    Bin("mul", Var("y"), Lit(QDiv(df.y_scale, df.y_factor))),
                    Bin("mul", Var("z"), Lit(QDiv(df.xz_scale, df.xz_factor)))),
                Lit(df.smear_scale_multiplier))
      [] df.kind = "WeirdScaledSampler" ->
            gen_weird_scaled_sampler(df, is_flat, flat_cached)
      [] df.kind = "BlendAlpha" -> Lit(One)
      [] df.kind \in {"BlendOffset", "EndIslands"} -> Lit(Zero)
      [] df.kind = "BlendDensity" -> gen_expr(df.input, is_flat, flat_cached)
      [] df.kind = "Marker" -> gen_expr(df.wrapped, is_flat, flat_cached)
      [] df.kind = "Reference" -> gen_reference(df.id, flat_cached)

\* gen_spline_expr / gen_spline_helper: the evaluate_spline call; a nested
\* spline value becomes a call of its own helper function, which takes
\* (x, z) when flat and (x, y, z) otherwise.
gen_spline_expr(spline, is_flat, flat_cached) ==
    [op |-> "spline",
     coord |-> gen_expr(spline.coordinate, is_flat, flat_cached),
     locations |-> [i \in DOMAIN spline.points |-> spline.points[i].location],
     derivatives |-> [i \in DOMAIN spline.points |-> spline.points[i].derivative],
     values |-> [i \in DOMAIN spline.points |->
                    IF spline.points[i].value.kind = "Constant"
                    THEN Lit(spline.points[i].value.value)
                    ELSE [op |-> "helper", flat |-> is_flat,
                          body |-> gen_spline_expr(spline.points[i].value.spline,
                                                   is_flat, flat_cached)]]]

RECURSIVE CodeVars(_)
\* The coordinate variables an emitted expression mentions, in its own text
\* or in the helper functions it calls.
CodeVars(c) ==
    CASE c.op = "lit" -> {}
      [] c.op = "var" -> {c.name}
      [] c.op = "cache" -> {}
      [] c.op = "call3d" -> {"x", "y", "z"}
      [] c.op = "noise" -> CodeVars(c.ax) \cup CodeVars(c.ay) \cup CodeVars(c.az)
      [] c.op = "bin" -> CodeVars(c.a) \cup CodeVars(c.b)
      [] c.op \in {"un", "clamp", "map_clamped"} -> CodeVars(c.a)
      [] c.op = "range_choice" ->
            CodeVars(c.v) \cup CodeVars(c.in_range) \cup CodeVars(c.out_range)
      [] c.op = "weird" ->
            CodeVars(c.rarity) \cup CodeVars(c.ax) \cup CodeVars(c.ay) \cup CodeVars(c.az)
      [] c.op = "spline" ->
            CodeVars(c.coord) \cup UNION {CodeVars(c.values[i]) : i \in DOMAIN c.values}
      [] c.op = "helper" ->
            (IF c.flat THEN {"x", "z"} ELSE {"x", "y", "z"}) \cup CodeVars(c.body)

RECURSIVE CodeCalls(_)
\* The generated 3D functions an emitted expression calls.
CodeCalls(c) ==
    CASE c.op \in {"lit", "var", "cache"} -> {}
      [] c.op = "call3d" -> {c.id}
      [] c.op = "noise" -> CodeCalls(c.ax) \cup CodeCalls(c.ay) \cup CodeCalls(c.az)
      [] c.op = "bin" -> CodeCalls(c.a) \cup CodeCalls(c.b)
      [] c.op \in {"un", "clamp", "map_clamped"} -> CodeCalls(c.a)
      [] c.op = "range_choice" ->
            CodeCalls(c.v) \cup CodeCalls(c.in_range) \cup CodeCalls(c.out_range)
      [] c.op = "weird" -> CodeCalls(c.rarity)
      [] c.op = "spline" ->
            CodeCalls(c.coord) \cup UNION {CodeCalls(c.values[i]) : i \in DOMAIN c.values}
      [] c.op = "helper" -> CodeCalls(c.body)

RECURSIVE CodeReads(_)
\* The column-cache fields an emitted expression reads.
CodeReads(c) ==
    CASE c.op \in {"lit", "var", "call3d"} -> {}
      [] c.op = "cache" -> {c.id}
      [] c.op = "noise" -> CodeReads(c.ax) \cup CodeReads(c.ay) \cup CodeReads(c.az)
      [] c.op = "bin" -> CodeReads(c.a) \cup CodeReads(c.b)
      [] c.op \in {"un", "clamp", "map_clamped"} -> CodeReads(c.a)
      [] c.op = "range_choice" ->
            CodeReads(c.v) \cup CodeReads(c.in_range) \cup CodeReads(c.out_range)
      [] c.op = "weird" -> CodeReads(c.rarity)
      [] c.op = "spline" ->
            CodeReads(c.coord) \cup UNION {CodeReads(c.values[i]) : i \in DOMAIN c.values}
      [] c.op = "helper" -> CodeReads(c.body)

RECURSIVE CodeNoises(_)
\* The noise-bundle fields an emitted expression samples.
CodeNoises(c) ==
    CASE c.op \in {"lit", "var", "call3d", "cache"} -> {}
      [] c.op = "noise" ->
            {c.field} \cup CodeNoises(c.ax) \cup CodeNoises(c.ay) \cup CodeNoises(c.az)
      [] c.op = "bin" -> CodeNoises(c.a) \cup CodeNoises(c.b)
      [] c.op \in {"un", "clamp", "map_clamped"} -> CodeNoises(c.a)
      [] c.op = "range_choice" ->
            CodeNoises(c.v) \cup CodeNoises(c.in_range) \cup CodeNoises(c.out_range)
      [] c.op = "weird" -> {c.field} \cup CodeNoises(c.rarity)
      [] c.op = "spline" ->
            CodeNoises(c.coord) \cup UNION {CodeNoises(c.values[i]) : i \in DOMAIN c.values}
      [] c.op = "helper" -> CodeNoises(c.body)

\* gen_named_functions: one function per name of topo_order that the
\* registry defines, in that order.
gen_named_functions(inp, c) ==
    LET defined == SelectSeq(c.topo_order, LAMBDA n : n \in DOMAIN inp.registry)
    IN [i \in DOMAIN defined |->
          LET name == defined[i]
              is_flat == name \in c.flat_cached
          IN [name |-> name, flat |-> is_flat,
              body |-> gen_expr(unwrap_markers(inp.registry[name]), is_flat,
                                c.flat_cached)]]

\* gen_column_cache: the cache fields and the statements of ensure, in order.
gen_column_cache(inp, c) ==
    LET flat_names == SelectSeq(c.topo_order, LAMBDA n : n \in c.flat_cached)
        flat_routers == SelectSeq(RouterOrder, LAMBDA n : n \in c.flat_routers)
    IN [cache_fields |-> flat_names,
        ensure_stmts |-> flat_names,
        router_fields |-> flat_routers,
        router_ensure_stmts |-> flat_routers]

\* gen_router_functions: a flat router gets a compute function run by ensure
\* and a public function that reads the cached field; any other router
\* evaluates its body with x and z taken from the cache.
gen_router_functions(inp, c) ==
    [name \in DOMAIN inp.router_entries |->
        LET df == inp.router_entries[name]
            inner == unwrap_markers(df)
        IN IF name \in c.flat_routers
           THEN [flat |-> TRUE, body |-> gen_expr(inner, TRUE, c.flat_cached)]
           ELSE [flat |-> FALSE,
                 body |-> gen_expr(inner, is_flat_cached(df), c.flat_cached)]]

\* transpile, phase 2.
generate(inp, c) ==
    [noises |-> c.noise_ids,
     named_fns |-> gen_named_functions(inp, c),
     column_cache |-> gen_column_cache(inp, c),
     routers |-> gen_router_functions(inp, c)]

NoGen == [noises |-> {}, named_fns |-> <<>>,
          column_cache |-> [cache_fields |-> <<>>, ensure_stmts |-> <<>>,
                            router_fields |-> <<>>, router_ensure_stmts |-> <<>>],
          routers |-> <<>>]

(***************************************************************************)
(* Build-time inputs: registries over three ids (id 4 is never defined, so *)
(* a Reference to it is unresolved) and a two-entry noise router.          *)
(***************************************************************************)
RegistryIds == 1 .. 3

MissingIds == {4}

Gradient == YClampedGradient(I(0), I(8), Zero, One)

InnerSpline == CubicSpline(Reference(2), <<SplinePoint(Zero, SplineConstant(One), Zero)>>)

OuterSpline ==
    CubicSpline(Reference(1),
        <<SplinePoint(Zero, SplineConstant(Zero), One),
          SplinePoint(One, SplineNested(InnerSpline), Zero)>>)

\* Definitions a registry entry may have: every node kind, with References
\* placed under each kind of parent.
DefTrees ==
    { Constant(One), Gradient,
      Noise("erosion", One, Zero), Noise("erosion", One, One),
      ShiftA("offset"), Shift("offset"),
      BlendedNoise(One, One, I(2), I(4), I(8)),
      Reference(1), Reference(2), Reference(3), Reference(4),
      Marker("FlatCache", Reference(2)), Marker("FlatCache", Gradient),
      Marker("Interpolated", Reference(3)),
      Marker("CacheOnce", Marker("Cache2D", Noise("temperature", One, One))),
      TwoArgumentSimple("add", Reference(1), Reference(3)),
      TwoArgumentSimple("mul", Reference(2), Gradient),
      ShiftedNoise(Reference(1), Constant(Zero), Reference(2), Quarter, Zero, "temperature"),
      ShiftedNoise(Gradient, Constant(Zero), Constant(Zero), Quarter, Zero, "temperature"),
      ShiftedNoise(Constant(Zero), Reference(3), Constant(Zero), One, One, "temperature"),
      WeirdScaledSampler(Constant(Zero), "spaghetti", "Tunnels"),
      WeirdScaledSampler(Reference(3), "spaghetti", "Caves"),
      Spline(OuterSpline),
      RangeChoice(Reference(1), Zero, One, Constant(One), Reference(2)),
      Clamp(Reference(3), Zero, One),
      BlendDensity(Reference(1)),
      Mapped("squeeze", Reference(2)) }

RouterConfigs ==
    { [temperature |-> Reference(1), final_density |-> Reference(2)],
      [temperature |-> Marker("FlatCache", Reference(3)),
       final_density |-> TwoArgumentSimple("add", Reference(1), Gradient)],
      [temperature |-> ShiftedNoise(Reference(2), Constant(Zero), Reference(3),
                                    Quarter, Zero, "temperature"),
       final_density |-> Spline(OuterSpline)],
      [temperature |-> Constant(Zero), final_density |-> Reference(4)] }

BuildInputs ==
    { [registry |-> r, router_entries |-> e] :
        r \in [RegistryIds -> DefTrees], e \in RouterConfigs }

NoiseIdOrder ==
    <<"continentalness", "erosion", "offset", "ridge", "spaghetti",
      "temperature", "vegetation">>

\* A noise-parameters table with an entry for every id of ids.
NoiseParameterTable(ids) ==
    [id \in ids |-> [first_octave |-> -7, amplitudes |-> <<One, One>>]]

AllNoiseParameters == NoiseParameterTable(Range(NoiseIdOrder))

NoSamplers == <<>>

NoLast == [kind |-> "none"]

InitTranspile ==
    /\ pc = "input"
    /\ noise_params = AllNoiseParameters
    /\ input \in BuildInputs
    /\ ctx = NewContext
    /\ gen = NoGen
    /\ sources = <<>>
    /\ samplers = NoSamplers
    /\ last = NoLast

\* transpile, phase 1
Analyze ==
    /\ pc = "input"
    /\ ctx' = analyze(input)
    /\ pc' = "analyzed"
    /\ UNCHANGED <<input, gen, sources, samplers, last, noise_params>>

\* transpile, phase 2
Generate ==
    /\ pc = "analyzed"
    /\ gen' = generate(input, ctx)
    /\ pc' = "generated"
    /\ UNCHANGED <<input, ctx, sources, samplers, last, noise_params>>

NextTranspile == Analyze \/ Generate

SpecTranspile == InitTranspile /\ [][NextTranspile]_vars

(***************************************************************************)
(* Runtime, part 1: the library functions generated code calls             *)
(***************************************************************************)
\* A noise generator is known by how it was seeded: the random algorithm, the
\* seed and, for a positional splitter, the hashed id.
NormalNoise_create(algo, seed, key) == [algo |-> algo, seed |-> seed, key |-> key]

NoiseSalt(noise) ==
    7 * noise.seed
    + (IF noise.key \in Range(NoiseIdOrder) THEN 3 * IndexOf(NoiseIdOrder, noise.key) ELSE 0)
    + (IF noise.algo = "xoroshiro" THEN 0 ELSE 1)

\* NormalNoise::get_value: a pure function of the generator and the sample
\* point, with values in [-1/2, 1/2].
get_value(noise, ax, ay, az) ==
    LET h == (NoiseSalt(noise) + 2 * ax[1] + ax[2] + 3 * ay[1] + 2 * ay[2]
              + 4 * az[1] + 3 * az[2]) % 5
    IN Q(h - 2, 4)

\* steel_utils::math::clamp
clamp(v, lo, hi) == QClamp(v, lo, hi)

\* steel_utils::math::map_clamped: linear map of [from_in, to_in] onto
\* [from_out, to_out], clamped at both ends.
map_clamped(v, from_in, to_in, from_out, to_out) ==
    LET t == QDiv(QSub(v, from_in), QSub(to_in, from_in))
    IN IF QLt(t, Zero) THEN from_out
       ELSE IF QLt(One, t) THEN to_out
       ELSE QAdd(from_out, QMul(t, QSub(to_out, from_out)))

\* RarityValueMapper::get_values
get_values(mapper, rarity) ==
    IF mapper = "Tunnels"
    THEN IF QLt(rarity, Q(-1, 2)) THEN Q(3, 4)
         ELSE IF QLt(rarity, Zero) THEN One
         ELSE IF QLt(rarity, Q(1, 2)) THEN Q(3, 2)
         ELSE I(2)
    ELSE IF QLt(rarity, Q(-3, 4)) THEN Q(1, 2)
         ELSE IF QLt(rarity, Q(-1, 2)) THEN Q(3, 4)
         ELSE IF QLt(rarity, Q(1, 2)) THEN One
         ELSE IF QLt(rarity, Q(3, 4)) THEN I(2)
         ELSE I(3)

\* One pass of the loop body with `<=` in place of `<`.
find_interval_iteration_le(locations, inp, lo, hi) ==
    LET mid == (lo + hi) \div 2
    IN IF QLe(inp, locations[mid + 1]) THEN <<lo, mid>> ELSE <<mid + 1, hi>>

\* One pass of the body of find_interval's while loop: the next <<lo, hi>>.
\* lo and hi are 0-based as in the source; i32::midpoint rounds down.
find_interval_iteration(locations, inp, lo, hi) ==
    LET mid == (lo + hi) \div 2
    IN IF QLt(inp, locations[mid + 1]) THEN <<lo, mid>> ELSE <<mid + 1, hi>>

RECURSIVE find_interval_loop(_, _, _, _)
\* The while loop of find_interval.
find_interval_loop(locations, inp, lo, hi) ==
    IF lo < hi
    THEN LET next == find_interval_iteration(locations, inp, lo, hi)
         IN find_interval_loop(locations, inp, next[1], next[2])
    ELSE lo - 1

\* spline_eval.rs find_interval: the largest 0-based i with
\* locations[i] <= input, or -1.
find_interval(locations, inp) ==
    find_interval_loop(locations, inp, 0, Len(locations))

\* spline_eval.rs hermite_interpolate
hermite_interpolate(x1, x2, y1, y2, d1, d2, inp) ==
    LET h == QSub(x2, x1)
        t == QDiv(QSub(inp, x1), h)
        a == QSub(QMul(d1, h), QSub(y2, y1))
        b == QAdd(QMul(QNeg(d2), h), QSub(y2, y1))
        lerp_y == QAdd(y1, QMul(t, QSub(y2, y1)))
        lerp_ab == QAdd(a, QMul(t, QSub(b, a)))
    IN QAdd(lerp_y, QMul(QMul(t, QSub(One, t)), lerp_ab))

\* evaluate_spline taking the last interval for the end of the spline.
evaluate_spline_short(locations, derivatives, inp, values) ==
    IF Len(locations) = 0 THEN Zero
    ELSE LET last_i == Len(locations) - 1
             start == find_interval(locations, inp)
         IN IF start < 0
            THEN QAdd(values[1], QMul(derivatives[1], QSub(inp, locations[1])))
            ELSE IF start + 1 >= last_i
            THEN QAdd(values[last_i + 1],
                      QMul(derivatives[last_i + 1], QSub(inp, locations[last_i + 1])))
            ELSE hermite_interpolate(locations[start + 1], locations[start + 2],
                                     values[start + 1], values[start + 2],
                                     derivatives[start + 1], derivatives[start + 2],
                                     inp)

\* spline_eval.rs evaluate_spline; values[i + 1] is value_at(i).
evaluate_spline(locations, derivatives, inp, values) ==
    IF Len(locations) = 0 THEN Zero
    ELSE LET last_i == Len(locations) - 1
             start == find_interval(locations, inp)
         IN IF start < 0
            THEN QAdd(values[1], QMul(derivatives[1], QSub(inp, locations[1])))
            ELSE IF start = last_i
            THEN QAdd(values[last_i + 1],
                      QMul(derivatives[last_i + 1], QSub(inp, locations[last_i + 1])))
            ELSE hermite_interpolate(locations[start + 1], locations[start + 2],
                                     values[start + 1], values[start + 2],
                                     derivatives[start + 1], derivatives[start + 2],
                                     inp)

(***************************************************************************)
(* Runtime, part 2: executing an emitted expression.  env holds what the   *)
(* enclosing generated function has in scope: noises, cache, x, z and, in  *)
(* a 3D function, y.                                                       *)
(***************************************************************************)
NoY == "not in scope"

FnBody(g, id) ==
    g.named_fns[CHOOSE i \in DOMAIN g.named_fns : g.named_fns[i].name = id].body

RECURSIVE Exec(_, _, _)
Exec(c, env, g) ==
    CASE c.op = "lit" -> c.value
      [] c.op = "var" -> I(env[c.name])
      [] c.op = "cache" -> env.cache.df[c.id]
      [] c.op = "call3d" -> Exec(FnBody(g, c.id), env, g)
      [] c.op = "noise" ->
            get_value(env.noises[c.field], Exec(c.ax, env, g), Exec(c.ay, env, g),
                      Exec(c.az, env, g))
      [] c.op = "bin" ->
            (LET a == Exec(c.a, env, g)
                 b == Exec(c.b, env, g)
             IN CASE c.f = "add" -> QAdd(a, b)
                  [] c.f = "mul" -> QMul(a, b)
                  [] c.f = "min" -> QMin(a, b)
                  [] c.f = "max" -> QMax(a, b))
      [] c.op = "un" ->
            (LET v == Exec(c.a, env, g)
             IN CASE c.f = "abs" -> QAbs(v)
                 [] c.f = "square" -> QMul(v, v)
                 [] c.f = "cube" -> QMul(QMul(v, v), v)
                 [] c.f = "half_negative" ->
                       IF QLt(Zero, v) THEN v ELSE QMul(v, Q(1, 2))
                 [] c.f = "quarter_negative" ->
                       IF QLt(Zero, v) THEN v ELSE QMul(v, Q(1, 4))
                 [] c.f = "invert" -> QDiv(One, v)
                 [] c.f = "squeeze" ->
                       LET k == clamp(v, I(-1), One)
                       IN QSub(QDiv(k, I(2)), QDiv(QMul(QMul(k, k), k), I(24))))
      [] c.op = "clamp" -> clamp(Exec(c.a, env, g), c.min, c.max)
      [] c.op = "map_clamped" ->
            map_clamped(Exec(c.a, env, g), c.from_y, c.to_y, c.from_value, c.to_value)
      [] c.op = "range_choice" ->
            (LET w == Exec(c.v, env, g)
             IN IF QLe(c.min, w) /\ QLt(w, c.max)
                THEN Exec(c.in_range, env, g)
                ELSE Exec(c.out_range, env, g))
      [] c.op = "weird" ->
            (LET rarity == Exec(c.rarity, env, g)
                 scale == get_values(c.mapper, rarity)
             IN QMul(scale,
                    QAbs(get_value(env.noises[c.field],
                                   QDiv(Exec(c.ax, env, g), scale),
                                   QDiv(Exec(c.ay, env, g), scale),
                                   QDiv(Exec(c.az, env, g), scale)))))
      [] c.op = "spline" ->
            evaluate_spline(c.locations, c.derivatives, Exec(c.coord, env, g),
                            [i \in DOMAIN c.values |-> Exec(c.values[i], env, g)])
      [] c.op = "helper" -> Exec(c.body, env, g)

(***************************************************************************)
(* Runtime, part 3: the generated column cache                             *)
(***************************************************************************)
\* {Prefix}ColumnCache::new
ColumnCache_new(g) ==
    [x |-> 0, z |-> 0, valid |-> FALSE,
     df |-> [id \in Range(g.column_cache.cache_fields) |-> Zero],
     router |-> [n \in Range(g.column_cache.router_fields) |-> Zero]]

FlatEnv(cache, x, z, noises) ==
    [noises |-> noises, cache |-> cache, x |-> x, y |-> NoY, z |-> z]

RECURSIVE run_ensure_stmts(_, _, _, _, _, _, _)
\* `let val = compute_<name>(noises, &*self, x, z); self.<field> = val;` for
\* the first k flat named functions; a state is the cache with the log of
\* the fields written so far.
run_ensure_stmts(st0, stmts, k, x, z, noises, g) ==
    IF k = 0 THEN st0
    ELSE LET st == run_ensure_stmts(st0, stmts, k - 1, x, z, noises, g)
             cache == st.cache
             val == Exec(FnBody(g, stmts[k]), FlatEnv(cache, x, z, noises), g)
         IN [cache |-> [cache EXCEPT !.df[stmts[k]] = val],
             log |-> Append(st.log, [kind |-> "df", name |-> stmts[k]])]

RECURSIVE run_router_ensure_stmts(_, _, _, _, _, _, _)
\* The same for the first k flat router entries.
run_router_ensure_stmts(st0, stmts, k, x, z, noises, g) ==
    IF k = 0 THEN st0
    ELSE LET st == run_router_ensure_stmts(st0, stmts, k - 1, x, z, noises, g)
             cache == st.cache
             val == Exec(g.routers[stmts[k]].body, FlatEnv(cache, x, z, noises), g)
         IN [cache |-> [cache EXCEPT !.router[stmts[k]] = val],
             log |-> Append(st.log, [kind |-> "router", name |-> stmts[k]])]

SetCoords(cache, x, z) ==
    [cache |-> [cache EXCEPT !.x = x, !.z = z],
     log |-> <<[kind |-> "coord", name |-> "x"], [kind |-> "coord", name |-> "z"]>>]

SetValid(st) ==
    [cache |-> [st.cache EXCEPT !.valid = TRUE],
     log |-> Append(st.log, [kind |-> "valid", name |-> "valid"])]

\* The slow path of ensure: store the coordinates, run the statements of the
\* flat named functions, then those of the flat routers, then set valid.
ensure_recompute(cache, x, z, noises, g) ==
    SetValid(
        run_router_ensure_stmts(
            run_ensure_stmts(SetCoords(cache, x, z),
                             g.column_cache.ensure_stmts,
                             Len(g.column_cache.ensure_stmts), x, z, noises, g),
            g.column_cache.router_ensure_stmts,
            Len(g.column_cache.router_ensure_stmts), x, z, noises, g))

\* An ensure whose fast path compares x only.
ensure_ignores_z(cache, x, z, noises, g) ==
    IF cache.valid /\ cache.x = x
    THEN [cache |-> cache, log |-> <<>>]
    ELSE ensure_recompute(cache, x, z, noises, g)

\* An ensure whose fast path compares z only.
ensure_ignores_x(cache, x, z, noises, g) ==
    IF cache.valid /\ cache.z = z
    THEN [cache |-> cache, log |-> <<>>]
    ELSE ensure_recompute(cache, x, z, noises, g)

\* An ensure whose fast path does not look at the valid flag.
ensure_trusts_coordinates(cache, x, z, noises, g) ==
    IF cache.x = x /\ cache.z = z
    THEN [cache |-> cache, log |-> <<>>]
    ELSE ensure_recompute(cache, x, z, noises, g)

\* An ensure without a fast path.
ensure_always_recomputes(cache, x, z, noises, g) ==
    ensure_recompute(cache, x, z, noises, g)

\* An ensure that leaves the flat router fields alone.
ensure_skips_routers(cache, x, z, noises, g) ==
    IF cache.valid /\ cache.x = x /\ cache.z = z
    THEN [cache |-> cache, log |-> <<>>]
    ELSE SetValid(run_ensure_stmts(SetCoords(cache, x, z),
                                   g.column_cache.ensure_stmts,
                                   Len(g.column_cache.ensure_stmts), x, z, noises, g))

\* An ensure that runs the router statements before those of the named
\* functions.
ensure_routers_first(cache, x, z, noises, g) ==
    IF cache.valid /\ cache.x = x /\ cache.z = z
    THEN [cache |-> cache, log |-> <<>>]
    ELSE SetValid(
            run_ensure_stmts(
                run_router_ensure_stmts(SetCoords(cache, x, z),
                    g.column_cache.router_ensure_stmts,
                    Len(g.column_cache.router_ensure_stmts), x, z, noises, g),
                g.column_cache.ensure_stmts,
                Len(g.column_cache.ensure_stmts), x, z, noises, g))

\* {Prefix}ColumnCache::ensure: a no-op when the cache is valid for (x, z).
\* Trusts the stored coordinates whether or not the cache is valid.
ensure_without_valid(cache, x, z, noises, g) ==
    IF cache.x = x /\ cache.z = z
    THEN [cache |-> cache, log |-> <<>>]
    ELSE ensure_recompute(cache, x, z, noises, g)

ensure(cache, x, z, noises, g) ==
    IF cache.valid /\ cache.x = x /\ cache.z = z
    THEN [cache |-> cache, log |-> <<>>]
    ELSE ensure_recompute(cache, x, z, noises, g)

\* A router entry point whose body uses the x and z it was called with.
router_value_own_coordinates(name, noises, cache, x, y, z, g) ==
    IF g.routers[name].flat
    THEN cache.router[name]
    ELSE Exec(g.routers[name].body,
              [noises |-> noises, cache |-> cache, x |-> x, y |-> y, z |-> z], g)

\* router_<name>(noises, cache, x, y, z): a flat router returns its cached
\* field; any other shadows x and z (`let x = cache.x; let z = cache.z;`)
\* and then evaluates its body.
router_value(name, noises, cache, x, y, z, g) ==
    IF g.routers[name].flat
    THEN cache.router[name]
    ELSE Exec(g.routers[name].body,
              [noises |-> noises, cache |-> cache, x |-> cache.x, y |-> y,
               z |-> cache.z], g)

(***************************************************************************)
(* Runtime, part 4: climate samplers                                       *)
(***************************************************************************)
\* steel_utils::climate::quantize_coord: (v as f32 * 10000.0) as i64
quantize_coord(v) == QTrunc(QMul(v, I(10000)))

\* What is left of a call that panicked.
Panicked == [panic |-> "missing noise params"]

\* {Prefix}Noises::create: one generator per noise id, from the splitter and
\* the id's entry of params; `params.get(id).expect(..)` panics when the
\* table has no entry for a field's id.
OverworldNoises_create(seed, params, g) ==
    IF g.noises \subseteq DOMAIN params
    THEN [id \in g.noises |-> NormalNoise_create("xoroshiro", seed, id)]
    ELSE Panicked

\* steel_registry::noise_parameters::get_noise_parameters
get_noise_parameters == noise_params

OverworldClimateSampler_new(seed, g) ==
    [noises |-> OverworldNoises_create(seed, get_noise_parameters, g)]

NetherClimateSampler_new(seed) ==
    [noises |->
        [offset |-> NormalNoise_create("legacy_positional", seed, "offset"),
         temperature |-> NormalNoise_create("legacy_nether", seed, ""),
         vegetation |-> NormalNoise_create("legacy_nether", seed + 1, "")]]

\* The router entry points sample calls, each result quantized.
quantized_routers(names, noises, cache, block_x, block_y, block_z, g) ==
    [name \in names |->
        quantize_coord(router_value(name, noises, cache, block_x, block_y,
                                    block_z, g))]

\* What sample hands back once ensure has run: the cache as ensure left it,
\* what ensure wrote, and the target point.
OverworldTargetPoint(e, r) ==
    [cache |-> e.cache, log |-> e.log,
     target |-> <<r.temperature, r.vegetation, r.continentalness, r.erosion,
                  r.depth, r.ridges>>]

OverworldClimateSampler_after_ensure(cs, e, block_x, block_y, block_z, g) ==
    OverworldTargetPoint(e,
        quantized_routers({"temperature", "vegetation", "continentalness",
                           "erosion", "depth", "ridges"},
                          cs.noises, e.cache, block_x, block_y, block_z, g))

OverworldClimateSampler_sample(cs, quart_x, quart_y, quart_z, cache, g) ==
    OverworldClimateSampler_after_ensure(cs,
        ensure(cache, quart_x * 4, quart_z * 4, cs.noises, g),
        quart_x * 4, quart_y * 4, quart_z * 4, g)

NetherTargetPoint(e, r) ==
    [cache |-> e.cache, log |-> e.log,
     target |-> <<r.temperature, r.vegetation, 0, 0, 0, 0>>]

NetherClimateSampler_after_ensure(cs, e, block_x, block_y, block_z, g) ==
    NetherTargetPoint(e,
        quantized_routers({"temperature", "vegetation"}, cs.noises, e.cache,
                          block_x, block_y, block_z, g))

NetherClimateSampler_sample(cs, quart_x, quart_y, quart_z, cache, g) ==
    NetherClimateSampler_after_ensure(cs,
        ensure(cache, quart_x * 4, quart_z * 4, cs.noises, g),
        quart_x * 4, quart_y * 4, quart_z * 4, g)

(***************************************************************************)
(* Runtime, part 5: biome parameter lists (steel_utils::climate and the    *)
(* lists multi_noise.rs generates from the datapack).  A target point is   *)
(* <<temperature, humidity, continentalness, erosion, depth, weirdness>>.  *)
(***************************************************************************)
Full == <<-20000, 20000>>

ParameterPoint(t, h, c, e, d, w, offset, biome) ==
    [parameters |-> <<t, h, c, e, d, w>>, offset |-> offset, biome |-> biome]

OverworldParameterList ==
    << ParameterPoint(<<-20000, -2500>>, Full, Full, Full, Full, Full, 0, "snowy_plains"),
       ParameterPoint(<<-2500, 2500>>, Full, <<-20000, 0>>, Full, Full, Full, 0, "ocean"),
       ParameterPoint(<<-2500, 2500>>, Full, <<0, 20000>>, Full, Full, Full, 0, "plains"),
       ParameterPoint(<<2500, 20000>>, <<-20000, 0>>, Full, Full, Full, Full, 0, "desert"),
       ParameterPoint(<<2500, 20000>>, <<0, 20000>>, Full, Full, Full, Full, 0, "jungle"),
       ParameterPoint(Full, Full, Full, Full, <<5000, 20000>>, Full, 1500, "dripstone_caves") >>

NetherParameterList ==
    << ParameterPoint(<<-20000, 0>>, Full, Full, Full, Full, Full, 0, "nether_wastes"),
       ParameterPoint(<<0, 20000>>, <<-20000, 0>>, Full, Full, Full, Full, 0, "crimson_forest"),
       ParameterPoint(<<0, 20000>>, <<0, 20000>>, Full, Full, Full, Full, 1000, "warped_forest"),
       ParameterPoint(<<2500, 2500>>, Full, Full, Full, Full, Full, 0, "soul_sand_valley") >>

\* Per-axis gap: 0 inside the interval, the distance to it outside.
AxisGap(interval, v) ==
    IF v > interval[2] THEN v - interval[2]
    ELSE IF v < interval[1] THEN interval[1] - v
    ELSE 0

\* Distances are sums of squares too large for 32-bit integers; they are
\* kept as two limbs <<hi, lo>> in base 10^8.
LimbBase == 10000 * 10000

DLt(a, b) == a[1] < b[1] \/ (a[1] = b[1] /\ a[2] < b[2])

\* Squared distance of a target to a parameter point, offset term included.
Fitness(point, target) ==
    LET sq == [i \in 1 .. 6 |->
                 AxisGap(point.parameters[i], target[i])
                     * AxisGap(point.parameters[i], target[i])]
        off == point.offset * point.offset
        hi == (sq[1] \div LimbBase) + (sq[2] \div LimbBase) + (sq[3] \div LimbBase)
              + (sq[4] \div LimbBase) + (sq[5] \div LimbBase) + (sq[6] \div LimbBase)
              + (off \div LimbBase)
        lo == (sq[1] % LimbBase) + (sq[2] % LimbBase) + (sq[3] % LimbBase)
              + (sq[4] % LimbBase) + (sq[5] % LimbBase) + (sq[6] % LimbBase)
              + (off % LimbBase)
    IN <<hi + (lo \div LimbBase), lo % LimbBase>>

\* The index a scan of the list ends with: the closest entry, the earliest
\* one among equally close entries.
Closest(list, target) ==
    LET fit == [i \in DOMAIN list |-> Fitness(list[i], target)]
    IN CHOOSE w \in DOMAIN list :
          \A j \in DOMAIN list :
              DLt(fit[w], fit[j]) \/ (fit[w] = fit[j] /\ w <= j)

\* ParameterList::find_value: the closest entry, the first one on ties.
find_value(list, target) == list[Closest(list, target)].biome

\* ParameterList::find_value_cached: the remembered entry is looked at
\* first, the scan decides, and the winning index is remembered.
find_value_cached(list, target, cache) ==
    LET w == Closest(list, target)
    IN [biome |-> list[w].biome, cache |-> <<w>>]

(***************************************************************************)
(* Runtime, part 6: the End (end_islands.rs, EndChunkBiomeSampler)         *)
(***************************************************************************)
\* (double)(-0.9f), the f32 nearest to -0.9 widened to f64.
ISLAND_THRESHOLD == Q(-7549747, 8388608)

\* The generator of the codec default: seeded with 0 whatever the world seed.
EndIslands_new_zero(seed) == [island_noise |-> [seed |-> 0]]

\* SimplexNoise seeded from LegacyRandom(seed) after 17292 skipped draws:
\* known by the seed.
EndIslands_new(seed) == [island_noise |-> [seed |-> seed]]

\* SimplexNoise::get_value_2d: a pure function of the generator and the
\* point with values in [-1, 1].  Few points fall below the island
\* threshold, and some of those sit exactly at -0.9.
get_value_2d(noise, x, z) ==
    LET h == (7 * noise.seed + x + 32 * z) % 1021
    IN IF h = 0 THEN <<-9, 10>>
       ELSE IF h = 1 THEN <<-19, 20>>
       ELSE <<2 * (h % 17) - 15, 32>>

\* The f32 / f64 NaN: unequal to every number, and every comparison with it
\* is false.
NaN == <<0, 0>>

IsNaN(v) == v = NaN

FLt(a, b) == ~IsNaN(a) /\ ~IsNaN(b) /\ QLt(a, b)

FLe(a, b) == ~IsNaN(a) /\ ~IsNaN(b) /\ QLe(a, b)

\* The 16-bit halves of an i32's two's-complement bit pattern, and back.
Hi16(a) == (a \div 65536) % 65536

Lo16(a) == a % 65536

FromHalves(hi, lo) == (IF hi >= 32768 THEN hi - 65536 ELSE hi) * 65536 + lo

\* a * b mod 2^16 for 16-bit a and b.
MulMod16(a, b) == ((((a * (b \div 256)) % 65536) * 256) + a * (b % 256)) % 65536

\* i32::wrapping_add
wrapping_add(a, b) ==
    LET lo == Lo16(a) + Lo16(b)
    IN FromHalves((Hi16(a) + Hi16(b) + lo \div 65536) % 65536, lo % 65536)

\* i32::wrapping_mul
wrapping_mul(a, b) ==
    LET t1 == Lo16(a) * (Lo16(b) \div 256)
        t0 == Lo16(a) * (Lo16(b) % 256)
        low == (t1 % 256) * 256 + t0
    IN FromHalves((low \div 65536 + t1 \div 256 + MulMod16(Hi16(a), Lo16(b))
                   + MulMod16(Lo16(a), Hi16(b))) % 65536,
                  low % 65536)

RECURSIVE ISqrtBetween(_, _, _)
ISqrtBetween(n, lo, hi) ==
    IF lo >= hi THEN lo
    ELSE LET mid == (lo + hi + 1) \div 2
         IN IF mid * mid <= n THEN ISqrtBetween(n, mid, hi)
            ELSE ISqrtBetween(n, lo, mid - 1)

\* sqrt in hundredths: the f32 square root to two decimals.  From 25.00 on
\* the falloff is clamped to -100 whatever the root is, so the root is not
\* followed further.
Sqrt100(n) == IF n >= 625 THEN 2500 ELSE ISqrtBetween(n * 10000, 0, 2500)

\* Rust integer division and remainder truncate toward zero.
TruncDiv(a, b) == IF a >= 0 THEN a \div b ELSE -((-a) \div b)

TruncRem(a, b) == a - b * TruncDiv(a, b)

ClampInt(v, lo, hi) == IF v < lo THEN lo ELSE IF v > hi THEN hi ELSE v

NeighborOffsets == -12 .. 12

\* chunk_x * chunk_x + chunk_z * chunk_z > 4096 in i64.
OutsideCentralIsland(chunk_x, chunk_z) ==
    \/ Abs(chunk_x) > 64
    \/ Abs(chunk_z) > 64
    \/ chunk_x * chunk_x + chunk_z * chunk_z > 4096

\* A neighbour chunk that holds an island whatever the central radius is.
is_island_anywhere(island_noise, total_chunk_x, total_chunk_z) ==
    QLt(get_value_2d(island_noise, total_chunk_x, total_chunk_z), ISLAND_THRESHOLD)

\* The condition of the neighbour loop.
is_island(island_noise, total_chunk_x, total_chunk_z) ==
    /\ OutsideCentralIsland(total_chunk_x, total_chunk_z)
    /\ QLt(get_value_2d(island_noise, total_chunk_x, total_chunk_z), ISLAND_THRESHOLD)

\* The falloff of the distance from the origin, in hundredths; NaN when the
\* wrapped distance-squared is negative (the square root of a negative f32).
base_doffs(section_x, section_z) ==
    LET dist_sq == wrapping_add(wrapping_mul(section_x, section_x),
                                wrapping_mul(section_z, section_z))
    IN IF dist_sq < 0 THEN {}
       ELSE {ClampInt(10000 - Sqrt100(dist_sq) * 8, -10000, 8000)}

\* new_doffs of the neighbour at offset o, in hundredths.
new_doffs(chunk_x, chunk_z, sub_section_x, sub_section_z, o) ==
    LET island_size ==
            ((Abs(chunk_x + o[1]) * 3439 + Abs(chunk_z + o[2]) * 147) % 13) + 9
        xd == sub_section_x - o[1] * 2
        zd == sub_section_z - o[2] * 2
    IN ClampInt(10000 - Sqrt100(xd * xd + zd * zd) * island_size, -10000, 8000)

\* The f32 maximum of a set of candidates: NaN when there is none, since
\* f32::max returns the other operand when one is NaN.
MaxOrNaN(all) ==
    IF all = {} THEN NaN ELSE Q(CHOOSE m \in all : \A v \in all : v <= m, 100)

\* EndIslands::get_height_value
get_height_value(island_noise, section_x, section_z) ==
    LET chunk_x == TruncDiv(section_x, 2)
        chunk_z == TruncDiv(section_z, 2)
        islands == {o \in NeighborOffsets \X NeighborOffsets :
                       is_island(island_noise, chunk_x + o[1], chunk_z + o[2])}
    IN MaxOrNaN(base_doffs(section_x, section_z) \cup
                {new_doffs(chunk_x, chunk_z, TruncRem(section_x, 2),
                           TruncRem(section_z, 2), o) : o \in islands})

\* EndIslands::sample: (height - 8.0) / 128.0
EndIslands_sample(end_islands, block_x, block_y, block_z) ==
    LET h == get_height_value(end_islands.island_noise, TruncDiv(block_x, 8),
                              TruncDiv(block_z, 8))
    IN IF IsNaN(h) THEN NaN ELSE QDiv(QSub(h, I(8)), I(128))

\* The thresholds of the outer End.
EndBiomeOf(erosion) ==
    IF FLt(Q(1, 4), erosion) THEN "end_highlands"
    ELSE IF FLe(Q(-1, 16), erosion) THEN "end_midlands"
    ELSE IF FLt(erosion, Q(-7, 32)) THEN "small_end_islands"
    ELSE "end_barrens"

\* A sampler that takes the density at the block it was asked about.
EndChunkBiomeSampler_sample_at_block(source, quart_x, quart_y, quart_z) ==
    IF ~OutsideCentralIsland((quart_x * 4) \div 16, (quart_z * 4) \div 16)
    THEN "the_end"
    ELSE EndBiomeOf(EndIslands_sample(source.end_islands, quart_x * 4, quart_y * 4,
                                      quart_z * 4))

EndChunkBiomeSampler_sample(source, quart_x, quart_y, quart_z) ==
    LET block_x == quart_x * 4
        block_y == quart_y * 4
        block_z == quart_z * 4
        chunk_x == block_x \div 16
        chunk_z == block_z \div 16
    IN IF ~OutsideCentralIsland(chunk_x, chunk_z)
       THEN "the_end"
       ELSE EndBiomeOf(EndIslands_sample(source.end_islands, (chunk_x * 2 + 1) * 8,
                                         block_y, (chunk_z * 2 + 1) * 8))

(***************************************************************************)
(* Runtime, part 7: biome sources and per-chunk samplers                   *)
(* (steel-core/src/worldgen/biome_source.rs)                               *)
(***************************************************************************)
\* BiomeSourceKind::overworld / nether / end.  seed is kept beside the source
\* for the statements about it; the code does not store it.
BiomeSourceKind_overworld(seed, g) ==
    [dim |-> "Overworld", seed |-> seed,
     climate_sampler |-> OverworldClimateSampler_new(seed, g)]

BiomeSourceKind_nether(seed) ==
    [dim |-> "Nether", seed |-> seed,
     climate_sampler |-> NetherClimateSampler_new(seed)]

BiomeSourceKind_end(seed) ==
    [dim |-> "End", seed |-> seed, end_islands |-> EndIslands_new(seed)]

BiomeSourceKind_new(dim, seed, g) ==
    CASE dim = "Overworld" -> BiomeSourceKind_overworld(seed, g)
      [] dim = "Nether" -> BiomeSourceKind_nether(seed)
      [] dim = "End" -> BiomeSourceKind_end(seed)

NoSampler == [dim |-> "none"]

NoCache == [valid |-> FALSE]

\* BiomeSourceKind::chunk_sampler: a sampler that borrows source k, with a
\* new column cache and an empty warm-start slot (the End sampler has
\* neither).
chunk_sampler(k, srcs, g) ==
    IF srcs[k].dim = "End"
    THEN [dim |-> "End", source |-> k]
    ELSE [dim |-> srcs[k].dim, source |-> k,
          column_cache |-> ColumnCache_new(g), biome_cache |-> <<>>]

\* get_<dim>_biome_cached(&target, &mut self.biome_cache): the biome, with
\* the sampler as the call leaves it, the target point and what ensure wrote.
sampled(s, t, b) ==
    [target |-> t.target, log |-> t.log, biome |-> b.biome,
     sampler |-> [s EXCEPT !.column_cache = t.cache, !.biome_cache = b.cache]]

get_biome_cached(s, t, list) ==
    sampled(s, t, find_value_cached(list, t.target, s.biome_cache))

OverworldChunkBiomeSampler_sample(s, quart_x, quart_y, quart_z, srcs, g) ==
    get_biome_cached(s,
        OverworldClimateSampler_sample(srcs[s.source].climate_sampler, quart_x,
                                       quart_y, quart_z, s.column_cache, g),
        OverworldParameterList)

NetherChunkBiomeSampler_sample(s, quart_x, quart_y, quart_z, srcs, g) ==
    get_biome_cached(s,
        NetherClimateSampler_sample(srcs[s.source].climate_sampler, quart_x,
                                    quart_y, quart_z, s.column_cache, g),
        NetherParameterList)

\* ChunkBiomeSampler::sample
ChunkBiomeSampler_sample(s, quart_x, quart_y, quart_z, srcs, g) ==
    CASE s.dim = "Overworld" ->
            OverworldChunkBiomeSampler_sample(s, quart_x, quart_y, quart_z, srcs, g)
      [] s.dim = "Nether" ->
            NetherChunkBiomeSampler_sample(s, quart_x, quart_y, quart_z, srcs, g)
      [] s.dim = "End" ->
            [biome |-> EndChunkBiomeSampler_sample(srcs[s.source], quart_x, quart_y,
                                                   quart_z),
             target |-> <<>>, log |-> <<>>, sampler |-> s]

(***************************************************************************)
(* Runtime inputs: registries and routers that compile, in the shape of    *)
(* the vanilla data (shift functions under flat-cache markers, routers     *)
(* that reference them, a depth that adds a Y gradient).                   *)
(***************************************************************************)
MarkedRegistry ==
    <<Marker("FlatCache",
          ShiftedNoise(Reference(3), Constant(Zero), Reference(4), Quarter, Zero,
                       "continentalness")),
      TwoArgumentSimple("add", Gradient, Reference(1)),
      Marker("FlatCache", Marker("Cache2D", ShiftA("offset"))),
      Marker("FlatCache", Marker("Cache2D", ShiftB("offset")))>>

InferredRegistry ==
    <<Mapped("half_negative", Reference(2)),
      Clamp(Reference(3), Q(-1, 4), Q(1, 2)),
      Noise("erosion", Quarter, Zero),
      WeirdScaledSampler(Gradient, "spaghetti", "Tunnels")>>

ErosionSpline ==
    CubicSpline(Reference(1),
        <<SplinePoint(Q(-1, 4), SplineConstant(Q(-1, 2)), Zero),
          SplinePoint(Q(1, 4),
              SplineNested(CubicSpline(Reference(3),
                  <<SplinePoint(Zero, SplineConstant(Q(1, 2)), One)>>)),
              One)>>)

OverworldMarked ==
    [registry |-> MarkedRegistry,
     router_entries |->
        [temperature |-> ShiftedNoise(Reference(3), Constant(Zero), Reference(4),
                                      Quarter, Zero, "temperature"),
         vegetation |-> ShiftedNoise(Reference(3), Constant(Zero), Reference(4),
                                     Quarter, Zero, "vegetation"),
         continentalness |-> Reference(1),
         erosion |-> Marker("FlatCache", Spline(ErosionSpline)),
         depth |-> Reference(2),
         ridges |-> Noise("ridge", Quarter, One)]]

OverworldInferred ==
    [registry |-> InferredRegistry,
     router_entries |->
        [temperature |-> Reference(1),
         vegetation |-> TwoArgumentSimple("mul", Reference(2), Constant(I(2))),
         continentalness |->
            RangeChoice(Reference(1), Zero, One, Reference(3), Gradient),
         erosion |-> Spline(ErosionSpline),
         depth |-> Reference(4),
         ridges |-> TwoArgumentSimple("max", Reference(3),
                                      Mapped("squeeze", Gradient))]]

NetherMarked ==
    [registry |-> MarkedRegistry,
     router_entries |->
        [temperature |-> ShiftedNoise(Reference(3), Constant(Zero), Reference(4),
                                      Quarter, Zero, "temperature"),
         vegetation |-> ShiftedNoise(Reference(3), Constant(Zero), Reference(4),
                                     Quarter, Zero, "vegetation"),
         continentalness |-> Constant(Zero),
         erosion |-> Constant(Zero),
         depth |-> Constant(Zero),
         ridges |-> Constant(Zero)]]

NetherPlain ==
    [registry |-> MarkedRegistry,
     router_entries |->
        [temperature |-> Noise("temperature", Quarter, Zero),
         vegetation |-> Mapped("abs", Noise("vegetation", One, One)),
         continentalness |-> Constant(Zero),
         erosion |-> Constant(Zero),
         depth |-> Constant(Zero),
         ridges |-> Constant(Zero)]]

RuntimeBuilds ==
    { [dim |-> "Overworld", input |-> OverworldMarked],
      [dim |-> "Overworld", input |-> OverworldInferred],
      [dim |-> "Nether", input |-> NetherMarked],
      [dim |-> "Nether", input |-> NetherPlain],
      [dim |-> "End", input |-> NetherPlain] }

Seeds == {0, 1}

SamplerIds == {"s1"}

MaxQuart == 1

EndFarQuart == 260

\* Quart coordinates the samplers are asked about; in the End also columns
\* beyond the central island (chunk 65 and further out).
QuartXs(dim) ==
    (0 .. MaxQuart) \cup
    (IF dim = "End" THEN {EndFarQuart + 4 * i : i \in 0 .. MaxQuart} ELSE {})

QuartYs == 0 .. MaxQuart

QuartZs == 0 .. MaxQuart

(***************************************************************************)
(* The runtime specification: two biome sources of one dimension, samplers *)
(* created from them and queried in any order.                             *)
(***************************************************************************)
Init ==
    /\ pc = "run"
    /\ noise_params = AllNoiseParameters
    /\ \E b \in RuntimeBuilds, s \in Seeds :
          \E c \in {analyze(b.input)} :
             \E g \in {generate(b.input, c)} :
                /\ input = b.input
                /\ ctx = c
                /\ gen = g
                /\ sources = <<BiomeSourceKind_new(b.dim, 0, g),
                               BiomeSourceKind_new(b.dim, s, g)>>
    /\ samplers = [i \in SamplerIds |-> NoSampler]
    /\ last = NoLast

\* let sampler = source.chunk_sampler();  The sampler the slot held is
\* dropped, and with it the record of its last call.
ChunkSampler(i, k) ==
    /\ pc = "run"
    /\ samplers' = [samplers EXCEPT ![i] = chunk_sampler(k, sources, gen)]
    /\ last' = NoLast
    /\ UNCHANGED <<pc, input, ctx, gen, sources, noise_params>>

\* sampler.sample(quart_x, quart_y, quart_z)
Sample(i, quart_x, quart_y, quart_z) ==
    /\ pc = "run"
    /\ samplers[i] # NoSampler
    /\ \E r \in {ChunkBiomeSampler_sample(samplers[i], quart_x, quart_y, quart_z,
                                         sources, gen)} :
          /\ samplers' = [samplers EXCEPT ![i] = r.sampler]
          /\ last' = [kind |-> "sample", sampler |-> i,
                      source |-> samplers[i].source, dim |-> samplers[i].dim,
                      quart |-> <<quart_x, quart_y, quart_z>>,
                      biome |-> r.biome, target |-> r.target, log |-> r.log,
                      before |-> IF samplers[i].dim = "End" THEN NoCache
                                 ELSE samplers[i].column_cache,
                      after |-> IF samplers[i].dim = "End" THEN NoCache
                                ELSE r.sampler.column_cache]
    /\ UNCHANGED <<pc, input, ctx, gen, sources, noise_params>>

Next ==
    \/ \E i \in SamplerIds, k \in DOMAIN sources : ChunkSampler(i, k)
    \/ \E i \in SamplerIds :
          \E quart_x \in QuartXs(samplers[i].dim), quart_y \in QuartYs,
             quart_z \in QuartZs :
                Sample(i, quart_x, quart_y, quart_z)

Spec == Init /\ [][Next]_vars

(***************************************************************************)
(* The generated router entry points are public: a second runtime          *)
(* specification in which the holder of a sampler's column cache calls     *)
(* ensure and the router functions itself, with coordinates of its own     *)
(* choosing.                                                               *)
(***************************************************************************)
BlockCoords == {0, 4}

\* cache.ensure(x, z, &noises), called by the holder of a sampler's cache
EnsureColumn(i, x, z) ==
    /\ pc = "run"
    /\ samplers[i] # NoSampler
    /\ samplers[i].dim # "End"
    /\ \E e \in {ensure(samplers[i].column_cache, x, z,
                         sources[samplers[i].source].climate_sampler.noises, gen)} :
          samplers' = [samplers EXCEPT ![i].column_cache = e.cache]
    /\ last' = NoLast
    /\ UNCHANGED <<pc, input, ctx, gen, sources, noise_params>>

\* density_functions::router_<name>(&noises, &cache, x, y, z)
RouterCall(i, name, x, y, z) ==
    /\ pc = "run"
    /\ samplers[i] # NoSampler
    /\ samplers[i].dim # "End"
    /\ last' = [kind |-> "router", sampler |-> i, source |-> samplers[i].source,
                name |-> name, args |-> <<x, y, z>>,
                cache |-> samplers[i].column_cache,
                value |-> router_value(name,
                             sources[samplers[i].source].climate_sampler.noises,
                             samplers[i].column_cache, x, y, z, gen)]
    /\ UNCHANGED <<pc, input, ctx, gen, sources, samplers, noise_params>>

NextRouters ==
    \/ \E i \in SamplerIds, k \in DOMAIN sources : ChunkSampler(i, k)
    \/ \E i \in SamplerIds :
          \E quart_x \in 0 .. MaxQuart, quart_z \in 0 .. MaxQuart :
             EnsureColumn(i, quart_x * 4, quart_z * 4)
    \/ \E i \in SamplerIds, name \in DOMAIN input.router_entries :
          \E x \in BlockCoords, y \in BlockCoords, z \in BlockCoords :
             RouterCall(i, name, x, y, z)

SpecRouters == Init /\ [][NextRouters]_vars

(***************************************************************************)
(* The same entry points over routers whose `ridges` entry is a shifted    *)
(* noise: with a Y scale and a shift that follows Y, with no Y scale and a *)
(* constant Y shift, and with no Y scale and a Y shift that follows Y.     *)
(* The temperature and vegetation entries keep the vanilla shape (no Y     *)
(* scale, a zero Y shift).                                                 *)
(***************************************************************************)
YShift == YClampedGradient(I(0), I(4), Zero, One)

ShiftedRidges ==
    { ShiftedNoise(Reference(3), YShift, Reference(4), Quarter, One, "ridge"),
      ShiftedNoise(Reference(3), Constant(One), Reference(4), Quarter, Zero, "ridge"),
      ShiftedNoise(Reference(3), YShift, Reference(4), Quarter, Zero, "ridge") }

ShiftedInputs ==
    { [registry |-> MarkedRegistry,
       router_entries |-> [OverworldMarked.router_entries EXCEPT !.ridges = r]] :
         r \in ShiftedRidges }

InitShifted ==
    /\ pc = "run"
    /\ noise_params = AllNoiseParameters
    /\ input \in ShiftedInputs
    /\ ctx = analyze(input)
    /\ gen = generate(input, ctx)
    /\ \E s \in Seeds : sources = <<BiomeSourceKind_new("Overworld", s, gen)>>
    /\ samplers = [i \in SamplerIds |-> NoSampler]
    /\ last = NoLast

SpecShifted == InitShifted /\ [][NextRouters]_vars

(***************************************************************************)
(* Build and boot: a datapack (density functions and a noise-parameters    *)
(* table) is transpiled, and the server then constructs the overworld      *)
(* biome source for a seed.                                                *)
(***************************************************************************)
BootInputs == {b.input : b \in {r \in RuntimeBuilds : r.dim = "Overworld"}}

InitBoot ==
    /\ pc = "input"
    /\ input \in BootInputs
    /\ noise_params \in {NoiseParameterTable(ids) : ids \in SUBSET Range(NoiseIdOrder)}
    /\ ctx = NewContext
    /\ gen = NoGen
    /\ sources = <<>>
    /\ samplers = NoSamplers
    /\ last = NoLast

\* BiomeSourceKind::overworld(seed): either the source is constructed or
\* the thread panics inside {Prefix}Noises::create.
Boot(seed) ==
    /\ pc = "generated"
    /\ \E n \in {OverworldNoises_create(seed, get_noise_parameters, gen)} :
          IF n = Panicked
          THEN pc' = "panicked" /\ sources' = sources
          ELSE pc' = "run" /\ sources' = <<BiomeSourceKind_new("Overworld", seed, gen)>>
    /\ UNCHANGED <<input, ctx, gen, samplers, last, noise_params>>

NextBoot == Analyze \/ Generate \/ \E seed \in Seeds : Boot(seed)

SpecBoot == InitBoot /\ [][NextBoot]_vars

(***************************************************************************)
(* The End on its own: a biome source per seed, samplers asked about the   *)
(* central island, the outer islands and the columns where the section     *)
(* distance-squared no longer fits an i32, and direct calls of             *)
(* EndIslands::sample.                                                     *)
(***************************************************************************)
EndQuartXs == {0, 260, 264, 272, -264, 92680}

EndQuartZs == {0, 4, 8}

EndBlockXs == {0, 100, -512, -1024, 2088, 370728}

EndBlockZs == {0, 16, -4232}

InitEnd ==
    /\ pc = "run"
    /\ noise_params = AllNoiseParameters
    /\ input \in {b.input : b \in {r \in RuntimeBuilds : r.dim = "End"}}
    /\ ctx = analyze(input)
    /\ gen = generate(input, ctx)
    /\ \E s \in Seeds : sources = <<BiomeSourceKind_new("End", s, gen)>>
    /\ samplers = [i \in SamplerIds |-> NoSampler]
    /\ last = NoLast

\* source.end_islands.sample(block_x, block_y, block_z)
EndIslandsSample(k, block_x, block_y, block_z) ==
    /\ pc = "run"
    /\ sources[k].dim = "End"
    /\ last' = [kind |-> "end_islands", source |-> k,
                block |-> <<block_x, block_y, block_z>>,
                value |-> EndIslands_sample(sources[k].end_islands, block_x,
                                            block_y, block_z)]
    /\ UNCHANGED <<pc, input, ctx, gen, sources, samplers, noise_params>>

NextEnd ==
    \/ \E i \in SamplerIds, k \in DOMAIN sources : ChunkSampler(i, k)
    \/ \E i \in SamplerIds :
          \E quart_x \in EndQuartXs, quart_y \in QuartYs, quart_z \in EndQuartZs :
             Sample(i, quart_x, quart_y, quart_z)
    \/ \E k \in DOMAIN sources :
          \E block_x \in EndBlockXs, block_z \in EndBlockZs :
             EndIslandsSample(k, block_x, 64, block_z)

SpecEnd == InitEnd /\ [][NextEnd]_vars

(***************************************************************************)
(* The spline helpers on their own: find_interval and evaluate_spline are  *)
(* public functions over raw slices, so they are run here on every small   *)
(* spline with non-decreasing locations.  find_interval's loop is taken    *)
(* one pass at a time; `last` holds its lo and hi between passes.          *)
(***************************************************************************)
MaxPoints == 3

MaxLocation == 2

\* The location slices: non-decreasing, repeated locations included.
SortedLocations ==
    {l \in UNION {[1 .. n -> 0 .. MaxLocation] : n \in 0 .. MaxPoints} :
        \A i \in 1 .. Len(l) - 1 : l[i] <= l[i + 1]}

\* Two rows of derivatives and two of values, by 1-based point index.
DerivativeAt(row, i) == IF row = 1 THEN Zero ELSE I(2 - (i % 3))

ValueAt(row, i) == IF row = 1 THEN One ELSE I(((3 * i) % 5) - 1)

SplineRows == 1 .. 2

SplineData ==
    {[locations |-> [i \in DOMAIN l |-> I(l[i])],
      derivatives |-> [i \in DOMAIN l |-> DerivativeAt(d, i)],
      values |-> [i \in DOMAIN l |-> ValueAt(v, i)]] :
        l \in SortedLocations, d \in SplineRows, v \in SplineRows}

\* The inputs: every half from one below the first possible location to one
\* above the last.
SplineArguments == {Q(n, 2) : n \in -2 .. 2 * MaxLocation + 2}

InitSpline ==
    /\ pc = "spline"
    /\ noise_params = AllNoiseParameters
    /\ input \in SplineData
    /\ ctx = NewContext
    /\ gen = NoGen
    /\ sources = <<>>
    /\ samplers = NoSamplers
    /\ last = NoLast

FindIntervalRunning == last.kind = "find_interval" /\ ~last.done

\* find_interval(locations, inp): entry, lo = 0 and hi = locations.len().
FindIntervalCall(inp) ==
    /\ pc = "spline"
    /\ ~FindIntervalRunning
    /\ last' = [kind |-> "find_interval", input |-> inp, lo |-> 0,
                hi |-> Len(input.locations), iterations |-> 0, done |-> FALSE]
    /\ UNCHANGED <<pc, input, ctx, gen, sources, samplers, noise_params>>

\* One pass of `while lo < hi`.
FindIntervalIterate ==
    /\ pc = "spline"
    /\ FindIntervalRunning
    /\ last.lo < last.hi
    /\ \E next \in {find_interval_iteration(input.locations, last.input,
                                              last.lo, last.hi)} :
          last' = [last EXCEPT !.lo = next[1], !.hi = next[2],
                               !.iterations = @ + 1]
    /\ UNCHANGED <<pc, input, ctx, gen, sources, samplers, noise_params>>

\* The loop's exit: `lo - 1` is returned.
FindIntervalReturn ==
    /\ pc = "spline"
    /\ FindIntervalRunning
    /\ ~(last.lo < last.hi)
    /\ last' = [kind |-> "find_interval", input |-> last.input,
                lo |-> last.lo, hi |-> last.hi,
                iterations |-> last.iterations, done |-> TRUE,
                value |-> last.lo - 1]
    /\ UNCHANGED <<pc, input, ctx, gen, sources, samplers, noise_params>>

\* The point after the interval is read also when the interval starts at the
\* last point.
evaluate_spline_accesses_past_last(locations, inp) ==
    IF Len(locations) = 0 THEN [indices |-> {}, hermite |-> <<>>]
    ELSE LET start == find_interval(locations, inp)
         IN IF start < 0 THEN [indices |-> {0}, hermite |-> <<>>]
            ELSE [indices |-> {start, start + 1},
                  hermite |-> <<start, start + 1>>]

\* The 0-based indices at which evaluate_spline reads locations, derivatives
\* and value_at after find_interval returned, and the pair of indices whose
\* locations it hands to hermite_interpolate.
evaluate_spline_accesses(locations, inp) ==
    IF Len(locations) = 0 THEN [indices |-> {}, hermite |-> <<>>]
    ELSE LET last_i == Len(locations) - 1
             start == find_interval(locations, inp)
         IN IF start < 0 THEN [indices |-> {0}, hermite |-> <<>>]
            ELSE IF start = last_i
            THEN [indices |-> {last_i}, hermite |-> <<>>]
            ELSE [indices |-> {start, start + 1},
                  hermite |-> <<start, start + 1>>]

\* evaluate_spline(locations, derivatives, inp, |i| values[i])
EvaluateSpline(inp) ==
    /\ pc = "spline"
    /\ ~FindIntervalRunning
    /\ last' = [kind |-> "evaluate_spline", input |-> inp,
                value |-> evaluate_spline(input.locations, input.derivatives,
                                          inp, input.values),
                accesses |-> evaluate_spline_accesses(input.locations, inp)]
    /\ UNCHANGED <<pc, input, ctx, gen, sources, samplers, noise_params>>

NextSpline ==
    \/ \E inp \in SplineArguments : FindIntervalCall(inp)
    \/ FindIntervalIterate
    \/ FindIntervalReturn
    \/ \E inp \in SplineArguments : EvaluateSpline(inp)

SpecSpline == InitSpline /\ [][NextSpline]_vars

(***************************************************************************)
(* Concurrent chunk generation: several tasks, each with its own sampler   *)
(* borrowed from one shared source.  A sample call is taken in two steps,  *)
(* the ensure of the column cache and then the router reads with the biome *)
(* lookup, and the steps of different tasks interleave freely; pc holds    *)
(* each task's position.                                                   *)
(***************************************************************************)
Tasks == {"s1", "s2"}

SharedQuarts == {<<0, 0, 0>>, <<0, 1, 0>>, <<1, 0, 0>>, <<1, 1, 1>>}

SharedBuilds ==
    { [dim |-> "Overworld", input |-> OverworldMarked],
      [dim |-> "Nether", input |-> NetherPlain] }

Idle == [at |-> "idle", quart |-> <<>>]

\* The column cache every sample call of task i works on.
cache_owner_shared(i) == "s1"

\* The sampler whose column cache a sample call of task i's sampler passes
\* on: `&mut self.column_cache`, its own.
cache_owner(i) == i

InitShared ==
    /\ pc = [i \in Tasks |-> Idle]
    /\ noise_params = AllNoiseParameters
    /\ \E b \in SharedBuilds, s \in Seeds :
          \E c \in {analyze(b.input)} :
             \E g \in {generate(b.input, c)} :
                /\ input = b.input
                /\ ctx = c
                /\ gen = g
                /\ sources = <<BiomeSourceKind_new(b.dim, s, g)>>
                /\ samplers =
                      [i \in Tasks |->
                          chunk_sampler(1, <<BiomeSourceKind_new(b.dim, s, g)>>, g)]
    /\ last = NoLast

\* create_biomes, line 36: `let mut sampler = self.biome_source.chunk_sampler()`
\* for the task's next chunk; every task starts with the sampler of its first.
TaskChunkSampler(i) ==
    /\ pc[i] = Idle
    /\ samplers' = [samplers EXCEPT ![i] = chunk_sampler(1, sources, gen)]
    /\ UNCHANGED <<pc, input, ctx, gen, sources, last, noise_params>>

\* The first half of sampler.sample(quart): cache.ensure(block_x, block_z, ..)
TaskEnsure(i, quart) ==
    /\ pc[i] = Idle
    /\ samplers[i] # NoSampler
    /\ \E o \in {cache_owner(i)} :
          \E e \in {ensure(samplers[o].column_cache, quart[1] * 4, quart[3] * 4,
                           sources[samplers[i].source].climate_sampler.noises, gen)} :
             samplers' = [samplers EXCEPT ![o].column_cache = e.cache]
    /\ pc' = [pc EXCEPT ![i] = [at |-> "ensured", quart |-> quart]]
    /\ UNCHANGED <<input, ctx, gen, sources, last, noise_params>>

\* The target point a sampler of dimension dim reads from an ensured cache.
climate_after_ensure(dim, cs, e, block_x, block_y, block_z, g) ==
    IF dim = "Overworld"
    THEN OverworldClimateSampler_after_ensure(cs, e, block_x, block_y, block_z, g)
    ELSE NetherClimateSampler_after_ensure(cs, e, block_x, block_y, block_z, g)

\* The second half: the router reads, quantize_coord and
\* get_<dim>_biome_cached(&target, &mut self.biome_cache).
TaskFinish(i) ==
    /\ pc[i].at = "ensured"
    /\ \E o \in {cache_owner(i)}, q \in {pc[i].quart} :
          \E t \in {climate_after_ensure(samplers[i].dim,
                        sources[samplers[i].source].climate_sampler,
                        [cache |-> samplers[o].column_cache, log |-> <<>>],
                        q[1] * 4, q[2] * 4, q[3] * 4, gen)} :
             \E r \in {get_biome_cached(samplers[i], t,
                          IF samplers[i].dim = "Overworld"
                          THEN OverworldParameterList
                          ELSE NetherParameterList)} :
                /\ samplers' = [samplers EXCEPT
                                   ![i].biome_cache = r.sampler.biome_cache]
                /\ last' = [kind |-> "sample", sampler |-> i,
                            source |-> samplers[i].source,
                            dim |-> samplers[i].dim, quart |-> q,
                            biome |-> r.biome, target |-> r.target]
    /\ pc' = [pc EXCEPT ![i] = Idle]
    /\ UNCHANGED <<input, ctx, gen, sources, noise_params>>

NextShared ==
    \/ \E i \in Tasks : TaskChunkSampler(i)
    \/ \E i \in Tasks, quart \in SharedQuarts : TaskEnsure(i, quart)
    \/ \E i \in Tasks : TaskFinish(i)

SpecShared == InitShared /\ [][NextShared]_vars

(***************************************************************************)
(* VanillaGenerator::create_biomes on one chunk: the four nested loops,    *)
(* one pass of the innermost body per step.  pc holds the loop variables;  *)
(* `last` holds the chunk (its biome cells with the number of writes to    *)
(* each, its dirty flag) and the number of column-cache recomputations.    *)
(***************************************************************************)
SectionCounts == {1, 2}

ChunkPositions == {<<0, 0>>, <<1, -1>>}

MinYs == {0, -64}

Locals == 0 .. 3

Cells(section_count) == (0 .. section_count - 1) \X Locals \X Locals \X Locals

\* The loop variables after the innermost body, with local_quart_z the
\* innermost loop and the sections the outermost.
next_position_y_outer(p, section_count) ==
    IF p.local_quart_z < 3 THEN [p EXCEPT !.local_quart_z = @ + 1]
    ELSE IF p.local_quart_x < 3
    THEN [p EXCEPT !.local_quart_x = @ + 1, !.local_quart_z = 0]
    ELSE IF p.local_quart_y < 3
    THEN [p EXCEPT !.local_quart_y = @ + 1, !.local_quart_x = 0,
                   !.local_quart_z = 0]
    ELSE IF p.section_index < section_count - 1
    THEN [p EXCEPT !.section_index = @ + 1, !.local_quart_y = 0,
                   !.local_quart_x = 0, !.local_quart_z = 0]
    ELSE [p EXCEPT !.at = "loops_done"]

\* The loop variables after the innermost body: local_quart_y innermost,
\* then section_index, then local_quart_z, then local_quart_x (lines 42-52).
next_position(p, section_count) ==
    IF p.local_quart_y < 3 THEN [p EXCEPT !.local_quart_y = @ + 1]
    ELSE IF p.section_index < section_count - 1
    THEN [p EXCEPT !.section_index = @ + 1, !.local_quart_y = 0]
    ELSE IF p.local_quart_z < 3
    THEN [p EXCEPT !.local_quart_z = @ + 1, !.section_index = 0,
                   !.local_quart_y = 0]
    ELSE IF p.local_quart_x < 3
    THEN [p EXCEPT !.local_quart_x = @ + 1, !.local_quart_z = 0,
                   !.section_index = 0, !.local_quart_y = 0]
    ELSE [p EXCEPT !.at = "loops_done"]

NewChunk(pos, min_y, section_count) ==
    [kind |-> "chunk", pos |-> pos, min_y |-> min_y,
     section_count |-> section_count,
     biomes |-> [c \in Cells(section_count) |-> "unset"],
     writes |-> [c \in Cells(section_count) |-> 0],
     dirty |-> FALSE, dirty_after |-> 0, samples |-> 0, recomputes |-> 0]

InitChunk ==
    /\ pc = [at |-> "entry"]
    /\ noise_params = AllNoiseParameters
    /\ \E b \in SharedBuilds, s \in Seeds :
          \E c \in {analyze(b.input)} :
             \E g \in {generate(b.input, c)} :
                /\ input = b.input
                /\ ctx = c
                /\ gen = g
                /\ sources = <<BiomeSourceKind_new(b.dim, s, g)>>
    /\ samplers = [i \in SamplerIds |-> NoSampler]
    /\ \E pos \in ChunkPositions, min_y \in MinYs, n \in SectionCounts :
          last = NewChunk(pos, min_y, n)

\* Lines 29-36: read the chunk's position and section count, create the
\* sampler, enter the loops.
CreateBiomesEnter ==
    /\ pc.at = "entry"
    /\ samplers' = [samplers EXCEPT !["s1"] = chunk_sampler(1, sources, gen)]
    /\ pc' = [at |-> "loop", local_quart_x |-> 0, local_quart_z |-> 0,
              section_index |-> 0, local_quart_y |-> 0]
    /\ UNCHANGED <<input, ctx, gen, sources, last, noise_params>>

\* Lines 44-63: one pass of the innermost body, sampler.sample and
\* section_guard.biomes.set.
CreateBiomesCell ==
    /\ pc.at = "loop"
    /\ \E quart_x \in {last.pos[1] * 4 + pc.local_quart_x},
          quart_z \in {last.pos[2] * 4 + pc.local_quart_z},
          quart_y \in {(TruncDiv(last.min_y, 16) + pc.section_index) * 4
                       + pc.local_quart_y},
          cell \in {<<pc.section_index, pc.local_quart_x, pc.local_quart_y,
                      pc.local_quart_z>>} :
          \E r \in {ChunkBiomeSampler_sample(samplers["s1"], quart_x, quart_y,
                                             quart_z, sources, gen)} :
             /\ samplers' = [samplers EXCEPT !["s1"] = r.sampler]
             /\ last' = [last EXCEPT
                            !.biomes[cell] = r.biome,
                            !.writes[cell] = @ + 1,
                            !.samples = @ + 1,
                            !.recomputes = IF r.log # <<>> THEN @ + 1 ELSE @]
    /\ pc' = next_position(pc, last.section_count)
    /\ UNCHANGED <<input, ctx, gen, sources, noise_params>>

\* Line 69: chunk.mark_dirty()
CreateBiomesMarkDirty ==
    /\ pc.at = "loops_done"
    /\ last' = [last EXCEPT !.dirty = TRUE, !.dirty_after = last.samples]
    /\ pc' = [at |-> "done"]
    /\ UNCHANGED <<input, ctx, gen, sources, samplers, noise_params>>

NextChunk == CreateBiomesEnter \/ CreateBiomesCell \/ CreateBiomesMarkDirty

SpecChunk == InitChunk /\ [][NextChunk]_vars

(***************************************************************************)
(* steel-login: the server hash in hexadecimal                             *)
(***************************************************************************)
MaxBytes == 3

\* Byte values of the unit tests, with both ends of each sign.
HexBytes == {0, 1, 42, 127, 128, 154, 220, 254, 255}

ByteArrays == UNION {[1 .. n -> HexBytes] : n \in 0 .. MaxBytes}

HexDigits == <<"0", "1", "2", "3", "4", "5", "6", "7", "8", "9", "a", "b",
               "c", "d", "e", "f">>

\* hex::encode: two lower-case digits per byte.
hex_encode(bytes) ==
    [i \in 1 .. 2 * Len(bytes) |->
        IF i % 2 = 1 THEN HexDigits[(bytes[(i + 1) \div 2] \div 16) + 1]
        ELSE HexDigits[(bytes[i \div 2] % 16) + 1]]

\* str::trim_start_matches(c)
RECURSIVE trim_start_matches(_, _)
trim_start_matches(s, c) ==
    IF s = <<>> \/ Head(s) # c THEN s ELSE trim_start_matches(Tail(s), c)

\* `for byte in magnitude.iter_mut().rev()`: add one to the byte at i, and
\* go on to the byte before it while the addition carries.
RECURSIVE add_one(_, _)
add_one(magnitude, i) ==
    IF i = 0 THEN magnitude
    ELSE LET result == (magnitude[i] + 1) % 256
             carry == magnitude[i] + 1 > 255
             stored == [magnitude EXCEPT ![i] = result]
         IN IF ~carry THEN stored ELSE add_one(stored, i - 1)

\* The sign read after the leading zero bytes were dropped.
signed_bytes_be_to_hex_stripped(bytes) ==
    LET stripped == trim_start_matches(bytes, 0)
    IN IF stripped = <<>> THEN <<"0">>
       ELSE IF stripped[1] >= 128
       THEN LET magnitude == add_one([i \in 1 .. Len(stripped) |->
                                          255 - stripped[i]], Len(stripped))
            IN <<"-">> \o trim_start_matches(hex_encode(magnitude), "0")
       ELSE trim_start_matches(hex_encode(stripped), "0")

signed_bytes_be_to_hex(bytes) ==
    IF bytes = <<>> THEN <<"0">>
    ELSE IF bytes[1] >= 128
    THEN LET magnitude == add_one([i \in 1 .. Len(bytes) |-> 255 - bytes[i]],
                                  Len(bytes))
             trimmed == trim_start_matches(hex_encode(magnitude), "0")
         IN <<"-">> \o trimmed
    ELSE LET trimmed == trim_start_matches(hex_encode(bytes), "0")
         IN IF trimmed = <<>> THEN <<"0">> ELSE trimmed

InitHex ==
    /\ pc = "hex"
    /\ input \in ByteArrays
    /\ ctx = <<>>
    /\ gen = <<>>
    /\ sources = <<>>
    /\ samplers = <<>>
    /\ noise_params = <<>>
    /\ last = NoLast

\* A call signed_bytes_be_to_hex(&bytes).
SignedBytesBeToHex ==
    /\ pc = "hex"
    /\ pc' = "hex_done"
    /\ last' = [kind |-> "hex", bytes |-> input,
                hex |-> signed_bytes_be_to_hex(input)]
    /\ UNCHANGED <<input, ctx, gen, sources, samplers, noise_params>>

NextHex == SignedBytesBeToHex

SpecHex == InitHex /\ [][NextHex]_vars

(***************************************************************************)
(* steel-core player: the teleport handshake                               *)
(***************************************************************************)
I32Max == 2147483647

MaxCalls == 3

Positions == {"spawn", "portal"}

Ticks == {0, 20}

None == "None"

\* Acknowledgement ids no teleport of the runs carries.
StrayIds == {7}

TeleportState_new ==
    [awaiting_position |-> None, teleport_id |-> 0, teleport_time |-> 0]

is_awaiting(t) == t.awaiting_position # None

next_id(t) ==
    [t EXCEPT !.teleport_id = IF t.teleport_id = I32Max THEN 0
                              ELSE t.teleport_id + 1]

\* I32Max calls of next_id one after the other: one call short of the whole
\* cycle of 2^31 ids, so the id ends one below where it started.
next_id_almost_cycle(t) ==
    [t EXCEPT !.teleport_id = IF t.teleport_id = 0 THEN I32Max
                              ELSE t.teleport_id - 1]

\* Accepts whatever id the acknowledgement carries.
try_accept_any(t, id) ==
    [state |-> [t EXCEPT !.awaiting_position = None],
     result |-> t.awaiting_position]

\* The state after try_accept(id) and what it returns.
try_accept(t, id) ==
    IF id = t.teleport_id
    THEN [state |-> [t EXCEPT !.awaiting_position = None],
          result |-> t.awaiting_position]
    ELSE [state |-> t, result |-> None]

\* ctx is the TeleportState, pc the number of next_id steps taken, and
\* samplers remembers which ids next_id returned and has since replaced, and
\* whether the counter has wrapped from i32::MAX to 0.
InitTeleport ==
    /\ pc = 0
    /\ ctx = TeleportState_new
    /\ samplers = [issued |-> FALSE, superseded |-> {}, wrapped |-> FALSE]
    /\ input = <<>>
    /\ gen = <<>>
    /\ sources = <<>>
    /\ noise_params = <<>>
    /\ last = [kind |-> "new", id |-> 0]

Replaced == IF samplers.issued THEN {ctx.teleport_id} ELSE {}

\* The owner of the state stores the position it waits for and the tick
\* (the fields are public).
SetAwaiting(pos, tick) ==
    /\ ctx' = [ctx EXCEPT !.awaiting_position = pos, !.teleport_time = tick]
    /\ last' = [kind |-> "set_awaiting", id |-> 0]
    /\ UNCHANGED <<pc, samplers, input, gen, sources, noise_params>>

NextId ==
    /\ pc < MaxCalls
    /\ pc' = pc + 1
    /\ ctx' = next_id(ctx)
    /\ samplers' = [issued |-> TRUE,
                    superseded |-> samplers.superseded \cup Replaced,
                    wrapped |-> samplers.wrapped \/ ctx.teleport_id = I32Max]
    /\ last' = [kind |-> "next_id", id |-> ctx'.teleport_id]
    /\ UNCHANGED <<input, gen, sources, noise_params>>

NextIdAlmostCycle ==
    /\ pc < MaxCalls
    /\ pc' = pc + 1
    /\ ctx' = next_id_almost_cycle(ctx)
    /\ samplers' = [issued |-> TRUE,
                    superseded |-> samplers.superseded \cup Replaced,
                    wrapped |-> samplers.wrapped \/ ctx.teleport_id # 0]
    /\ last' = [kind |-> "next_id", id |-> ctx'.teleport_id]
    /\ UNCHANGED <<input, gen, sources, noise_params>>

TryAccept(id) ==
    /\ \E r \in {try_accept(ctx, id)} :
          /\ ctx' = r.state
          /\ last' = [kind |-> "try_accept", id |-> id, result |-> r.result,
                      before |-> ctx, superseded |-> samplers.superseded,
                      wrapped |-> samplers.wrapped,
                      prev_kind |-> last.kind, prev_id |-> last.id]
    /\ UNCHANGED <<pc, samplers, input, gen, sources, noise_params>>

NextTeleport ==
    \/ \E pos \in Positions, tick \in Ticks : SetAwaiting(pos, tick)
    \/ NextId
    \/ NextIdAlmostCycle
    \/ \E id \in samplers.superseded \cup {ctx.teleport_id} \cup StrayIds :
          TryAccept(id)

SpecTeleport == InitTeleport /\ [][NextTeleport]_vars

(***************************************************************************)
(* steel-login: mojang_authenticate                                        *)
(***************************************************************************)
MAX_RETRIES == 3

StatusCodes == {200, 204, 403, 500}

Bodies == {"profile", "garbage"}

\* What `reqwest::get(&auth_url).await` can resolve to: a transport error,
\* or a response with a status and a body.
Responses ==
    {[ok |-> FALSE, status |-> 0, body |-> ""]}
       \cup {[ok |-> TRUE, status |-> s, body |-> b] :
                s \in StatusCodes, b \in Bodies}

\* A 204 leaves the error as it was.
status_error_keeps_204(last_error, status) ==
    IF status = 204 THEN last_error
    ELSE [error |-> "UnknownStatusCode", status |-> status]

\* The arms of `match response.status()` that assign last_error.
status_error(last_error, status) ==
    IF status = 204 THEN [error |-> "UnverifiedUsername", status |-> 0]
    ELSE [error |-> "UnknownStatusCode", status |-> status]

\* response.json().await.map_err(|_| AuthError::FailedParse)
parse_json(body) ==
    IF body = "profile" THEN [ok |-> TRUE, profile |-> body]
    ELSE [ok |-> FALSE, error |-> [error |-> "FailedParse", status |-> 0]]

\* ctx holds the locals of mojang_authenticate, gen the responses received
\* so far, pc the position in the function.
InitAuth ==
    /\ pc = "loop"
    /\ ctx = [iteration |-> 0, requests |-> 0,
              last_error |-> [error |-> "FailedResponse", status |-> 0]]
    /\ gen = <<>>
    /\ input = <<>>
    /\ sources = <<>>
    /\ samplers = <<>>
    /\ noise_params = <<>>
    /\ last = NoLast

\* `for _ in 0..MAX_RETRIES`: the next iteration sends its request.
AuthRequest ==
    /\ pc = "loop"
    /\ ctx.iteration < MAX_RETRIES
    /\ ctx' = [ctx EXCEPT !.iteration = @ + 1, !.requests = @ + 1]
    /\ pc' = "await"
    /\ UNCHANGED <<gen, input, sources, samplers, noise_params, last>>

\* The request resolves; lines 76-87.
AuthResponse(response) ==
    /\ pc = "await"
    /\ gen' = Append(gen, response)
    /\ IF ~response.ok
       THEN /\ ctx' = [ctx EXCEPT
                          !.last_error = [error |-> "FailedResponse",
                                          status |-> 0]]
            /\ pc' = "loop"
            /\ last' = last
       ELSE IF response.status = 200
       THEN /\ ctx' = ctx
            /\ pc' = "returned"
            /\ last' = [kind |-> "auth", result |-> parse_json(response.body)]
       ELSE /\ ctx' = [ctx EXCEPT
                          !.last_error = status_error(ctx.last_error,
                                                      response.status)]
            /\ pc' = "loop"
            /\ last' = last
    /\ UNCHANGED <<input, sources, samplers, noise_params>>

\* Lines 90-92: the loop is over; Err(last_error).
AuthGiveUp ==
    /\ pc = "loop"
    /\ ctx.iteration >= MAX_RETRIES
    /\ pc' = "returned"
    /\ last' = [kind |-> "auth",
                result |-> [ok |-> FALSE, error |-> ctx.last_error]]
    /\ UNCHANGED <<ctx, gen, input, sources, samplers, noise_params>>

NextAuth ==
    \/ AuthRequest
    \/ \E response \in Responses : AuthResponse(response)
    \/ AuthGiveUp

SpecAuth == InitAuth /\ [][NextAuth]_vars

\* Every request resolves and the task is polled until it returns.
SpecAuthFair == SpecAuth /\ WF_vars(NextAuth)

(***************************************************************************)
(* The names of the generated items                                        *)
(***************************************************************************)
MaxPath == 2

MaxHelpers == 2

PathChars == {"a", "_", "-", "/"}

\* Paths start with a letter.
Paths ==
    {p \in UNION {[1 .. n -> PathChars] : n \in 1 .. MaxPath} : p[1] = "a"}

\* Ids without a namespace and in two namespaces.
IdStrings ==
    Paths \cup {<<"m", ":">> \o p : p \in Paths}
          \cup {<<"n", ":">> \o p : p \in Paths}

RECURSIVE split_once_colon(_)
\* id.split_once(':') followed by the match: the text after the first colon,
\* or all of it when there is none.
split_once_colon(id) ==
    IF id = <<>> THEN <<>>
    ELSE IF Head(id) = ":" THEN Tail(id)
    ELSE LET rest == split_once_colon(Tail(id))
         IN IF \E i \in DOMAIN id : id[i] = ":" THEN rest ELSE id

RECURSIVE replace_char(_, _, _)
\* str::replace(from, to) for a one-character pattern.
replace_char(s, from, to) ==
    IF s = <<>> THEN <<>>
    ELSE (IF Head(s) = from THEN to ELSE <<Head(s)>>)
            \o replace_char(Tail(s), from, to)

sanitize_name(id) ==
    replace_char(replace_char(split_once_colon(id), "/", <<"_", "_">>),
                 "-", <<"_">>)

noise_field_ident(noise_id) == <<"n", "_">> \o sanitize_name(noise_id)

named_fn_field_ident(name) == <<"d", "f", "_">> \o sanitize_name(name)

named_fn_ident(name) ==
    <<"c", "o", "m", "p", "u", "t", "e", "_">> \o sanitize_name(name)

router_cache_field_ident(name) ==
    <<"r", "o", "u", "t", "e", "r", "_">> \o sanitize_name(name)

router_compute_fn_ident(name) ==
    <<"c", "o", "m", "p", "u", "t", "e", "_", "r", "o", "u", "t", "e", "r", "_">>
       \o sanitize_name(name)

\* format_ident!("router_{}", sanitize_name(name)) of gen_router_functions
router_fn_ident(name) ==
    <<"r", "o", "u", "t", "e", "r", "_">> \o sanitize_name(name)

Digits == <<"0", "1", "2", "3", "4", "5", "6", "7", "8", "9">>

\* format_ident!("spline_helper_{}", id), for the counters the runs reach.
spline_helper_ident(id) ==
    <<"s", "p", "l", "i", "n", "e", "_", "h", "e", "l", "p", "e", "r", "_">>
       \o <<Digits[id + 1]>>

\* The inputs a build names: a named function or a router entry, cached in
\* the column cache or not, or a noise.
NamedItems ==
    {[kind |-> k, id |-> id, flat |-> f] :
        k \in {"named_fn", "router"}, id \in IdStrings, f \in BOOLEAN}
    \cup {[kind |-> "noise", id |-> id, flat |-> FALSE] : id \in IdStrings}

\* The fields an item adds to the noise bundle and to the column cache.
ItemFields(item) ==
    CASE item.kind = "noise" ->
            {[scope |-> "noises", name |-> noise_field_ident(item.id)]}
      [] item.kind = "named_fn" ->
            IF item.flat
            THEN {[scope |-> "cache", name |-> named_fn_field_ident(item.id)]}
            ELSE {}
      [] item.kind = "router" ->
            IF item.flat
            THEN {[scope |-> "cache", name |-> router_cache_field_ident(item.id)]}
            ELSE {}

\* The functions gen_named_functions emits for an item.
ItemNamedFns(item) ==
    IF item.kind = "named_fn"
    THEN {[scope |-> "fn", name |-> named_fn_ident(item.id)]}
    ELSE {}

\* The functions gen_router_functions emits for an item.
ItemRouterFns(item) ==
    IF item.kind = "router"
    THEN {[scope |-> "fn", name |-> router_fn_ident(item.id)]}
         \cup (IF item.flat
               THEN {[scope |-> "fn", name |-> router_compute_fn_ident(item.id)]}
               ELSE {})
    ELSE {}

\* input is the pair of items of the build; ctx holds spline_counter and
\* spline_fns; gen holds, per item, the names emitted for it, and the helper
\* names of the two outputs.
InitIdent ==
    /\ pc = "structs"
    /\ input \in {p \in NamedItems \X NamedItems :
                     p[1].kind # p[2].kind \/ p[1].id # p[2].id}
    /\ ctx = [spline_counter |-> 0, spline_fns |-> <<>>]
    /\ gen = [names |-> <<{}, {}>>, named_helpers |-> <<>>,
              router_helpers |-> <<>>]
    /\ sources = <<>>
    /\ samplers = <<>>
    /\ noise_params = <<>>
    /\ last = NoLast

\* gen_noises_struct and gen_column_cache: the fields.
GenStructs ==
    /\ pc = "structs"
    /\ gen' = [gen EXCEPT !.names = [i \in 1 .. 2 |-> ItemFields(input[i])]]
    /\ pc' = "named"
    /\ UNCHANGED <<input, ctx, sources, samplers, noise_params, last>>

\* gen_spline_helper, called while a function body is generated.
GenSplineHelper ==
    /\ pc \in {"named", "routers"}
    /\ ctx.spline_counter < MaxHelpers
    /\ ctx' = [spline_counter |-> ctx.spline_counter + 1,
               spline_fns |-> Append(ctx.spline_fns,
                                     spline_helper_ident(ctx.spline_counter))]
    /\ UNCHANGED <<pc, input, gen, sources, samplers, noise_params, last>>

\* gen_named_functions: the compute functions, then mem::take(spline_fns).
GenNamedFunctions ==
    /\ pc = "named"
    /\ gen' = [gen EXCEPT
                  !.names = [i \in 1 .. 2 |-> @[i] \cup ItemNamedFns(input[i])],
                  !.named_helpers = ctx.spline_fns]
    /\ ctx' = [ctx EXCEPT !.spline_fns = <<>>]
    /\ pc' = "routers"
    /\ UNCHANGED <<input, sources, samplers, noise_params, last>>

\* gen_router_functions: the router functions, then mem::take(spline_fns).
GenRouterFunctions ==
    /\ pc = "routers"
    /\ gen' = [gen EXCEPT
                  !.names = [i \in 1 .. 2 |-> @[i] \cup ItemRouterFns(input[i])],
                  !.router_helpers = ctx.spline_fns]
    /\ ctx' = [ctx EXCEPT !.spline_fns = <<>>]
    /\ pc' = "emitted"
    /\ UNCHANGED <<input, sources, samplers, noise_params, last>>

NextIdent ==
    GenStructs \/ GenSplineHelper \/ GenNamedFunctions \/ GenRouterFunctions

SpecIdent == InitIdent /\ [][NextIdent]_vars

(***************************************************************************)
(* Reference definitions the claims are stated against                     *)
(***************************************************************************)
RECURSIVE SplineChildren(_)
SplineChildren(spline) ==
    {spline.coordinate} \cup
    UNION {SplineChildren(spline.points[i].value.spline) :
            i \in {j \in DOMAIN spline.points : spline.points[j].value.kind = "Spline"}}

\* The direct sub-functions of a node.
Children(df) ==
    CASE df.kind = "ShiftedNoise" -> {df.shift_x, df.shift_y, df.shift_z}
      [] df.kind = "TwoArgumentSimple" -> {df.argument1, df.argument2}
      [] df.kind \in {"Mapped", "Clamp", "BlendDensity", "WeirdScaledSampler"} -> {df.input}
      [] df.kind = "RangeChoice" -> {df.input, df.when_in_range, df.when_out_of_range}
      [] df.kind = "Marker" -> {df.wrapped}
      [] df.kind = "Spline" -> SplineChildren(df.spline)
      [] OTHER -> {}

RECURSIVE RefsIn(_)
\* Every id that occurs in a Reference node anywhere in a tree.
RefsIn(df) ==
    (IF df.kind = "Reference" THEN {df.id} ELSE {})
    \cup UNION {RefsIn(c) : c \in Children(df)}

RECURSIVE Closure(_, _)
\* The ids reachable from a set of ids through the registry's definitions.
Closure(S, registry) ==
    LET T == S \cup UNION {RefsIn(registry[n]) : n \in S \cap DOMAIN registry}
    IN IF T = S THEN S ELSE Closure(T, registry)

Reachable(inp) ==
    Closure(UNION {RefsIn(inp.router_entries[n]) : n \in DOMAIN inp.router_entries},
            inp.registry)

\* No definition reaches itself through References.
Acyclic(registry) ==
    \A n \in DOMAIN registry : n \notin Closure(RefsIn(registry[n]), registry)

NoDuplicates(s) == \A i, j \in DOMAIN s : s[i] = s[j] => i = j

Before(s, a, b) ==
    \E i, j \in DOMAIN s : s[i] = a /\ s[j] = b /\ i < j

RECURSIVE Perms(_)
\* All orders in which a set of names can be visited.
Perms(S) ==
    IF S = {} THEN {<<>>}
    ELSE UNION {{<<a>> \o p : p \in Perms(S \ {a})} : a \in S}

RECURSIVE LeastFlat(_, _, _)
\* The least set that contains F and every used, defined name whose
\* marker-stripped body does not use y and only references names of the set.
LeastFlat(F, used, registry) ==
    LET G == F \cup {n \in used \cap DOMAIN registry :
                      LET inner == unwrap_markers(registry[n])
                      IN ~uses_y(inner) /\ RefsIn(inner) \subseteq F}
    IN IF G = F THEN F ELSE LeastFlat(G, used, registry)

(***************************************************************************)
(* Claims about the analyzer and the code generator                        *)
(***************************************************************************)
Analyzed == pc \in {"analyzed", "generated"}

FlatFunctionBodies ==
    {gen.named_fns[i].body : i \in {j \in DOMAIN gen.named_fns : gen.named_fns[j].flat}}
    \cup {gen.routers[n].body : n \in {m \in DOMAIN gen.routers : gen.routers[m].flat}}

\* A registry as the data model describes it: named references form a DAG
\* and every reference reachable from a router root is defined.
WellFormed(inp) ==
    Acyclic(inp.registry) /\ Reachable(inp) \subseteq DOMAIN inp.registry

\* The last sample call, as the claims speak of it.
ClimateSample == last.kind = "sample" /\ last.dim \in {"Overworld", "Nether"}

LastBlockX == last.quart[1] * 4

LastBlockY == last.quart[2] * 4

LastBlockZ == last.quart[3] * 4

LastNoises == sources[last.source].climate_sampler.noises

\* The cache the call was handed was valid for the column it was asked about.
SameColumn ==
    /\ last.before.valid
    /\ last.before.x = LastBlockX
    /\ last.before.z = LastBlockZ

\* The cache the call was handed was valid for another column.
OtherColumn ==
    /\ last.before.valid
    /\ last.before.x # LastBlockX \/ last.before.z # LastBlockZ

\* The target point read from a given cache at the last call's height.
TargetOver(cache) ==
    IF last.dim = "Overworld"
    THEN OverworldClimateSampler_after_ensure(
            sources[last.source].climate_sampler, [cache |-> cache, log |-> <<>>],
            LastBlockX, LastBlockY, LastBlockZ, gen).target
    ELSE NetherClimateSampler_after_ensure(
            sources[last.source].climate_sampler, [cache |-> cache, log |-> <<>>],
            LastBlockX, LastBlockY, LastBlockZ, gen).target

\* Every flat value recomputed for the last call's column, starting from a
\* cache nobody has used.
FromScratch ==
    ensure_recompute(ColumnCache_new(gen), LastBlockX, LastBlockZ, LastNoises, gen).cache

\* The biome a sampler just created from source k returns at the last call's
\* coordinates.
FreshBiome(k) ==
    ChunkBiomeSampler_sample(chunk_sampler(k, sources, gen), last.quart[1],
                             last.quart[2], last.quart[3], sources, gen).biome

\* The names of the entries of a log, of one kind, in the order written.
Written(log, kind) ==
    LET es == SelectSeq(log, LAMBDA e : e.kind = kind)
    IN [i \in DOMAIN es |-> es[i].name]

\* The cache fields the statement behind a log entry reads.
EntryReads(e) ==
    CASE e.kind = "df" -> CodeReads(FnBody(gen, e.name))
      [] e.kind = "router" -> CodeReads(gen.routers[e.name].body)
      [] OTHER -> {}

C2_CacheNeverChangesTarget ==
    ClimateSample => last.target = TargetOver(FromScratch)

\* The cache handed in was valid for another column, and reading it as it
\* stood would have given another target point.
C2_Witness ==
    /\ ClimateSample
    /\ OtherColumn
    /\ last.target # TargetOver(last.before)

\* C3: an ensure for the column the cache is already valid for changes no
\* field, neither coordinate nor the valid flag, and runs no compute function.
C3_RepeatedEnsureIsNoOp ==
    (ClimateSample /\ SameColumn) =>
        /\ last.after = last.before
        /\ last.log = <<>>

\* A second call for the same column, at another height than the cached
\* fields were computed for.
C3_Witness ==
    /\ ClimateSample
    /\ SameColumn
    /\ last.after.valid
    /\ last.quart[2] # 0
    /\ DOMAIN last.after.df # {}

\* C4: an ensure on a cache that is not valid, or valid for another column,
\* stores the coordinates, writes every flat named-function field and every
\* flat router field with the value its compute function gives for (x, z),
\* and leaves the cache valid for exactly (x, z).
C4_RecomputeOverwritesEverything ==
    (ClimateSample /\ ~SameColumn) =>
        /\ last.after.x = LastBlockX
        /\ last.after.z = LastBlockZ
        /\ last.after.valid
        /\ \A id \in DOMAIN last.after.df :
              /\ last.after.df[id] =
                    Exec(FnBody(gen, id),
                         FlatEnv(last.after, LastBlockX, LastBlockZ, LastNoises), gen)
              /\ [kind |-> "df", name |-> id] \in Range(last.log)
        /\ \A n \in DOMAIN last.after.router :
              /\ last.after.router[n] =
                    Exec(gen.routers[n].body,
                         FlatEnv(last.after, LastBlockX, LastBlockZ, LastNoises), gen)
              /\ [kind |-> "router", name |-> n] \in Range(last.log)
        /\ last.after = FromScratch

\* The cache held another column whose named-function fields and router
\* fields both had other values.
C4_Witness ==
    /\ ClimateSample
    /\ OtherColumn
    /\ \E id \in DOMAIN last.after.df : last.after.df[id] # last.before.df[id]
    /\ \E n \in DOMAIN last.after.router :
          last.after.router[n] # last.before.router[n]

\* C5: a recomputing ensure writes the flat named-function fields in
\* topological order, then the flat router fields, then the valid flag; so a
\* cache field read by the body of a flat function or flat router has been
\* written earlier in the same call.
C5_EnsureWriteOrder ==
    (ClimateSample /\ last.log # <<>>) =>
        LET log == last.log
            n == Len(log)
        IN /\ log[n].kind = "valid"
           /\ \A i \in 1 .. n - 1 : log[i].kind # "valid"
           /\ \A i, j \in 1 .. n :
                 (log[i].kind = "df" /\ log[j].kind = "router") => i < j
           /\ Written(log, "df") =
                 SelectSeq(ctx.topo_order, LAMBDA id : id \in ctx.flat_cached)
           /\ \A i, j \in 1 .. n :
                 (i < j /\ log[i].kind = "df" /\ log[j].kind = "df") =>
                    log[j].name \notin Closure({log[i].name}, input.registry)
           /\ Range(Written(log, "router")) = ctx.flat_routers
           /\ \A j \in 1 .. n :
                 \A id \in EntryReads(log[j]) :
                    \E i \in 1 .. j - 1 : log[i] = [kind |-> "df", name |-> id]

\* A recomputation over a column that was valid before, in which a flat
\* named function and a flat router each read a field written before them.
C5_Witness ==
    /\ ClimateSample
    /\ OtherColumn
    /\ \E e \in Range(last.log) : e.kind = "df" /\ EntryReads(e) # {}
    /\ \E e \in Range(last.log) : e.kind = "router" /\ EntryReads(e) # {}

C7_FlatBodiesNeverUseY ==
    (pc = "generated" /\ WellFormed(input)) =>
        \A b \in FlatFunctionBodies : "y" \notin CodeVars(b) /\ CodeCalls(b) = {}

\* C8: after analyze, flat_cached is the least fixed point of the flatness
\* rule: a used name is in it iff its definition is wrapped in a flat-cache or
\* 2D-cache marker, or its marker-stripped body does not use y and all its
\* references are in flat_cached; and every visiting order gives this set.
C8_FlatnessLeastFixedPoint ==
    Analyzed =>
        /\ ctx.flat_cached =
              LeastFlat(ExplicitFlat(ctx.used_names, input.registry),
                        ctx.used_names, input.registry)
        /\ \A n \in ctx.used_names :
              n \in ctx.flat_cached <=>
                 /\ n \in DOMAIN input.registry
                 /\ \/ is_flat_cached(input.registry[n])
                    \/ /\ ~uses_y(unwrap_markers(input.registry[n]))
                       /\ RefsIn(unwrap_markers(input.registry[n]))
                              \subseteq ctx.flat_cached
        /\ \A p \in Perms(ctx.used_names) :
              InferLoop(ExplicitFlat(ctx.used_names, input.registry), p,
                        input.registry) = ctx.flat_cached

\* A chain: name 1 is flat only because 2 is, and 2 only because 3 is, so the
\* first pass (which visits 1, 2, 3 in that order) cannot finish the job.
C8_Witness ==
    /\ Analyzed
    /\ ctx.used_names = {1, 2, 3}
    /\ ctx.flat_cached = {1, 2, 3}
    /\ input.registry[1] = Reference(2)
    /\ input.registry[2] = Clamp(Reference(3), Zero, One)
    /\ input.registry[3] = Noise("erosion", One, Zero)

\* C9: for an acyclic registry topo_order holds every used name exactly once,
\* every reference of a used definition comes before the definition, and the
\* generated functions and the ensure statements follow topo_order.
C9_TopoOrder ==
    (Analyzed /\ Acyclic(input.registry)) =>
        /\ Range(ctx.topo_order) = ctx.used_names
        /\ NoDuplicates(ctx.topo_order)
        /\ \A f \in ctx.used_names \cap DOMAIN input.registry :
              \A d \in RefsIn(input.registry[f]) : Before(ctx.topo_order, d, f)
        /\ pc = "generated" =>
              /\ [i \in DOMAIN gen.named_fns |-> gen.named_fns[i].name] =
                    SelectSeq(ctx.topo_order, LAMBDA n : n \in DOMAIN input.registry)
              /\ gen.column_cache.ensure_stmts =
                    SelectSeq(ctx.topo_order, LAMBDA n : n \in ctx.flat_cached)

\* Name 1 depends on 3 and 3 on 2, against the key order in which
\* topological_sort starts its visits.
C9_Witness ==
    /\ pc = "generated"
    /\ Acyclic(input.registry)
    /\ ctx.topo_order = <<2, 3, 1>>
    /\ 3 \in RefsIn(input.registry[1])
    /\ 2 \in RefsIn(input.registry[3])

\* C10: the walk from the router roots ends with used_names equal to the ids
\* reachable through Reference nodes, having recursed into each defined one
\* exactly once and into no other.
C10_WalkMarksReachable ==
    Analyzed =>
        /\ ctx.used_names = Reachable(input)
        /\ NoDuplicates(ctx.walked)
        /\ Range(ctx.walked) = ctx.used_names \cap DOMAIN input.registry

\* A cyclic registry whose ids are reached only through a nested spline, a
\* shifted-noise shift and a marker, with one id left unreachable.
C10_Witness ==
    /\ Analyzed
    /\ ~Acyclic(input.registry)
    /\ input.router_entries.final_density = Spline(OuterSpline)
    /\ input.router_entries.temperature.kind = "ShiftedNoise"
    /\ input.registry[3] = Marker("Interpolated", Reference(3))
    /\ input.registry[2] = Reference(4)
    /\ ctx.used_names = {1, 2, 3, 4}
    /\ Len(ctx.walked) = 3

(***************************************************************************)
(* Claims about the generated router entry points                          *)
(***************************************************************************)
RouterCalled == last.kind = "router"

RouterNoises == sources[last.source].climate_sampler.noises

\* The cache as an ensure for the column it holds leaves it.
EnsuredForItsColumn(cache) ==
    ensure_recompute(ColumnCache_new(gen), cache.x, cache.z, RouterNoises, gen).cache

\* The router entry's body evaluated at (x, y, z) over a cache.
RouterBodyAt(name, cache, x, y, z) ==
    Exec(gen.routers[name].body,
         [noises |-> RouterNoises, cache |-> cache, x |-> x, y |-> y, z |-> z], gen)

\* C11: a router function of a flat router entry returns the value the last
\* ensure stored in the column cache, and one of a non-flat router entry
\* returns its body evaluated at (cache.x, y, cache.z), whatever x and z it
\* was called with.
C11_RouterReadsColumnFromCache ==
    (RouterCalled /\ last.cache.valid) =>
        /\ last.name \in ctx.flat_routers =>
              /\ last.value = last.cache.router[last.name]
              /\ last.value = EnsuredForItsColumn(last.cache).router[last.name]
        /\ last.name \notin ctx.flat_routers =>
              last.value = RouterBodyAt(last.name, last.cache, last.cache.x,
                                        last.args[2], last.cache.z)

\* A non-flat router was called with x and z that both differ from the
\* cache's, and its body at the caller's coordinates has another value.
C11_Witness ==
    /\ RouterCalled
    /\ last.cache.valid
    /\ last.args[1] # last.cache.x
    /\ last.args[3] # last.cache.z
    /\ last.name \notin ctx.flat_routers
    /\ last.value # RouterBodyAt(last.name, last.cache, last.args[1],
                                 last.args[2], last.args[3])

(***************************************************************************)
(* Claims about build failures                                             *)
(***************************************************************************)
\* The ids a router root reaches that the registry does not define.
MissingReferences(inp) == Reachable(inp) \ DOMAIN inp.registry

\* C12: when a density function reachable from a router root references an
\* id the registry does not define, the transpiler produces no output: the
\* generated module stays empty.
C12_MissingReferenceAbortsGeneration ==
    MissingReferences(input) # {} => gen = NoGen

\* The noise ids of the reachable graph that have no entry in the table.
MissingNoiseParams == ctx.noise_ids \ DOMAIN noise_params

\* C13: a noise id used by the reachable graph without an entry in the
\* noise-parameters table stops the build (nothing is generated), so that
\* creating the noise bundle at run time never fails.
C13_MissingNoiseParamsAbortGeneration ==
    /\ (Analyzed /\ MissingNoiseParams # {}) => gen = NoGen
    /\ pc # "panicked"

(***************************************************************************)
(* Claims about the End                                                    *)
(***************************************************************************)
EndSample == last.kind = "sample" /\ last.dim = "End"

EndBiomes ==
    {"the_end", "end_highlands", "end_midlands", "small_end_islands", "end_barrens"}

\* chunk = (quart << 2) >> 4
LastChunkX == (last.quart[1] * 4) \div 16

LastChunkZ == (last.quart[3] * 4) \div 16

\* The island density at the transformed coordinates of the last call's
\* chunk, for the source with index k.
LastErosion(k) ==
    EndIslands_sample(sources[k].end_islands, (LastChunkX * 2 + 1) * 8,
                      last.quart[2] * 4, (LastChunkZ * 2 + 1) * 8)

\* C14: the End sampler returns the_end exactly when
\* chunk_x^2 + chunk_z^2 <= 4096, and otherwise classifies the island density
\* at ((chunk_x*2+1)*8, block_y, (chunk_z*2+1)*8): end_highlands above 0.25,
\* else end_midlands from -0.0625, else small_end_islands below -0.21875,
\* else end_barrens; the answer is always one of the five End biomes.
C14_EndBiomeClassification ==
    EndSample =>
        LET e == LastErosion(last.source)
            central == LastChunkX * LastChunkX + LastChunkZ * LastChunkZ <= 4096
        IN /\ last.biome \in EndBiomes
           /\ last.biome = "the_end" <=> central
           /\ ~central =>
                /\ last.biome = "end_highlands" <=> FLt(Q(1, 4), e)
                /\ last.biome = "end_midlands" <=>
                      ~FLt(Q(1, 4), e) /\ FLe(Q(-1, 16), e)
                /\ last.biome = "small_end_islands" <=>
                      ~FLt(Q(1, 4), e) /\ ~FLe(Q(-1, 16), e) /\ FLt(e, Q(-7, 32))
                /\ last.biome = "end_barrens" <=>
                      ~FLt(Q(1, 4), e) /\ ~FLe(Q(-1, 16), e) /\ ~FLt(e, Q(-7, 32))

\* An outer column whose density at the block itself would be classified
\* differently from the density at the transformed coordinates.
C14_Witness ==
    /\ EndSample
    /\ last.biome \in {"end_midlands", "end_barrens"}
    /\ EndBiomeOf(EndIslands_sample(sources[last.source].end_islands,
                                    last.quart[1] * 4, last.quart[2] * 4,
                                    last.quart[3] * 4)) # last.biome

IslandsSampled == last.kind = "end_islands"

\* C15: EndIslands::sample returns a value in [-0.84375, 0.5625] for every
\* seed and every block coordinate, the section distance-squared being
\* computed with wrapping 32-bit arithmetic.
C15_EndIslandsRange ==
    IslandsSampled => FLe(Q(-27, 32), last.value) /\ FLe(last.value, Q(9, 16))

\* The section and chunk of the last direct call of EndIslands::sample.
LastSectionX == TruncDiv(last.block[1], 8)

LastSectionZ == TruncDiv(last.block[3], 8)

NeighbourChunk(o) ==
    <<TruncDiv(LastSectionX, 2) + o[1], TruncDiv(LastSectionZ, 2) + o[2]>>

\* The simplex value of a neighbour is below (double)(-0.9f).
BelowThreshold(o) ==
    QLt(get_value_2d(sources[last.source].end_islands.island_noise,
                     NeighbourChunk(o)[1], NeighbourChunk(o)[2]),
        <<-7549747, 8388608>>)

InsideCentralRadius(o) ==
    NeighbourChunk(o)[1] * NeighbourChunk(o)[1]
        + NeighbourChunk(o)[2] * NeighbourChunk(o)[2] <= 4096

\* What the neighbour at offset o would add, in hundredths.
NeighbourHeight(o) ==
    new_doffs(TruncDiv(LastSectionX, 2), TruncDiv(LastSectionZ, 2),
              TruncRem(LastSectionX, 2), TruncRem(LastSectionZ, 2), o)

Contributors ==
    {o \in (-12 .. 12) \X (-12 .. 12) : ~InsideCentralRadius(o) /\ BelowThreshold(o)}

\* The height behind the last value: value = (height - 8) / 128.
LastHeight ==
    IF IsNaN(last.value) THEN NaN ELSE QAdd(QMul(last.value, I(128)), I(8))

\* C16: the height is the maximum of the base falloff and the neighbours of
\* the 25x25 neighbourhood that contribute, and a neighbour contributes only
\* if its chunk has cx*cx + cz*cz > 4096 and its simplex value is below
\* (double)(-0.9f); a chunk inside the central radius never contributes.
C16_OnlyOuterIslandsContribute ==
    IslandsSampled =>
        LET heights == base_doffs(LastSectionX, LastSectionZ)
                         \cup {NeighbourHeight(o) : o \in Contributors}
        IN /\ heights = {} <=> IsNaN(last.value)
           /\ heights # {} =>
                /\ \E h \in heights : LastHeight = Q(h, 100)
                /\ \A h \in heights : QLe(Q(h, 100), LastHeight)

\* A chunk inside the central radius has a simplex value below the threshold
\* and would have raised the height had it counted.
C16_Witness ==
    /\ IslandsSampled
    /\ ~IsNaN(last.value)
    /\ \E o \in (-12 .. 12) \X (-12 .. 12) :
          /\ InsideCentralRadius(o)
          /\ BelowThreshold(o)
          /\ QLt(LastHeight, Q(NeighbourHeight(o), 100))

(***************************************************************************)
(* Claims about the spline helpers                                         *)
(***************************************************************************)
FindIntervalReturned == last.kind = "find_interval" /\ last.done

\* The index the documentation of find_interval promises, 0-based: -1 when
\* inp is before every location, else the largest i with locations[i] <= inp.
LargestAtOrBelow(locations, inp) ==
    IF locations = <<>> \/ QLt(inp, locations[1]) THEN -1
    ELSE CHOOSE i \in 0 .. Len(locations) - 1 :
            /\ QLe(locations[i + 1], inp)
            /\ \A j \in i + 1 .. Len(locations) - 1 : ~QLe(locations[j + 1], inp)

\* C18: on non-decreasing locations find_interval returns -1 when the input
\* is strictly before the first location and otherwise the largest index
\* whose location is at most the input (so an exact match returns its own
\* index and an input at or past the last location returns len - 1); the
\* result lies in -1 .. len - 1, and the search terminates: every pass keeps
\* 0 <= lo <= hi <= len and narrows hi - lo by at least one, so there are at
\* most len passes.
C18_FindIntervalLargestAtOrBelow ==
    /\ last.kind = "find_interval" =>
          /\ 0 <= last.lo /\ last.lo <= last.hi
          /\ last.hi <= Len(input.locations)
          /\ last.iterations + (last.hi - last.lo) <= Len(input.locations)
    /\ FindIntervalReturned =>
          /\ last.value = LargestAtOrBelow(input.locations, last.input)
          /\ last.value \in -1 .. Len(input.locations) - 1

\* A search over a full-length slice with a repeated location that took two
\* passes or more and ended on an exact match, at the later of two equal
\* locations.
C18_Witness ==
    /\ FindIntervalReturned
    /\ Len(input.locations) = MaxPoints
    /\ last.iterations >= 2
    /\ last.value >= 1
    /\ input.locations[last.value + 1] = last.input
    /\ input.locations[last.value] = last.input

SplineEvaluated == last.kind = "evaluate_spline" /\ input.locations # <<>>

\* value + derivative * (inp - location) of the point with 1-based index i.
LinearFrom(spline, i, inp) ==
    QAdd(spline.values[i],
         QMul(spline.derivatives[i], QSub(inp, spline.locations[i])))

\* The cubic Hermite polynomial through points i and i + 1 (1-based) in its
\* basis form: h00(t) y1 + h10(t) h d1 + h01(t) y2 + h11(t) h d2.
HermiteBetween(spline, i, inp) ==
    LET h == QSub(spline.locations[i + 1], spline.locations[i])
        t == QDiv(QSub(inp, spline.locations[i]), h)
        t2 == QMul(t, t)
        t3 == QMul(t2, t)
        h00 == QAdd(QSub(QMul(I(2), t3), QMul(I(3), t2)), One)
        h10 == QAdd(QSub(t3, QMul(I(2), t2)), t)
        h01 == QSub(QMul(I(3), t2), QMul(I(2), t3))
        h11 == QSub(t3, t2)
    IN QAdd(QAdd(QMul(h00, spline.values[i]),
                 QMul(QMul(h10, h), spline.derivatives[i])),
            QAdd(QMul(h01, spline.values[i + 1]),
                 QMul(QMul(h11, h), spline.derivatives[i + 1])))

ShiftedRouterCalled ==
    /\ RouterCalled
    /\ last.cache.valid
    /\ input.router_entries[last.name].kind = "ShiftedNoise"

\* The value of a shift sub-expression of router entry `name` as compiled for
\* that entry, at the cache's column and height y.
ShiftValue(sub, name, cache, y) ==
    Exec(gen_expr(sub, name \in ctx.flat_routers, ctx.flat_cached),
         [noises |-> RouterNoises, cache |-> cache, x |-> cache.x, y |-> y,
          z |-> cache.z], gen)

\* coord * scale + shift
ScaleThenShift(coord, scale, shift) == QAdd(QMul(I(coord), scale), shift)

\* C20: the compiled form of a shifted-noise node samples its noise at
\* x * xz_scale + shift_x, y * y_scale + shift_y and z * xz_scale + shift_z,
\* each shift being the value of that axis's shift sub-expression.
C20_ShiftedNoiseScalesThenShifts ==
    ShiftedRouterCalled =>
       LET df == input.router_entries[last.name]
           y == last.args[2]
       IN last.value =
             get_value(RouterNoises[df.noise_id],
                 ScaleThenShift(last.cache.x, df.xz_scale,
                                ShiftValue(df.shift_x, last.name, last.cache, y)),
                 ScaleThenShift(y, df.y_scale,
                                ShiftValue(df.shift_y, last.name, last.cache, y)),
                 ScaleThenShift(last.cache.z, df.xz_scale,
                                ShiftValue(df.shift_z, last.name, last.cache, y)))

(***************************************************************************)
(* Claims about concurrent use of one biome source                         *)
(***************************************************************************)
\* The sampler of task i as it would be had it run alone: its column cache
\* after one ensure of a new cache for the column of quart.
AloneCache(i, quart) ==
    ensure_recompute(ColumnCache_new(gen), quart[1] * 4, quart[3] * 4,
                     sources[samplers[i].source].climate_sampler.noises, gen).cache

\* The result of the same query on a new sampler that no other task touches.
AloneSample(k, quart) ==
    ChunkBiomeSampler_sample(chunk_sampler(k, sources, gen), quart[1], quart[2],
                             quart[3], sources, gen)

CellsWritten == {c \in DOMAIN last.writes : last.writes[c] > 0}

\* The columns a chunk's cells fall in, as <<local_quart_x, local_quart_z>>.
ColumnsTouched == {<<c[2], c[4]>> : c \in CellsWritten}

ColumnComplete(col) ==
    \A c \in DOMAIN last.writes :
       (c[2] = col[1] /\ c[4] = col[2]) => last.writes[c] > 0

\* C22: create_biomes goes column by column.  At every moment at most one
\* column is partly written (all Y of all sections of a column are sampled
\* before the next column starts), the column cache has been recomputed once
\* for each column touched so far, no cell has been written twice and the
\* chunk is not dirty while a cell is unwritten; at the end there were 16
\* recomputations, every cell of every section was written exactly once and
\* the chunk was marked dirty after the last write.
C22_CreateBiomesColumnMajor ==
    /\ Cardinality({col \in ColumnsTouched : ~ColumnComplete(col)}) <= 1
    /\ last.recomputes = Cardinality(ColumnsTouched)
    /\ \A c \in DOMAIN last.writes : last.writes[c] <= 1
    /\ last.dirty => /\ \A c \in DOMAIN last.writes : last.writes[c] = 1
                     /\ last.dirty_after = 64 * last.section_count
    /\ pc.at \in {"loops_done", "done"} =>
          /\ last.recomputes = 16
          /\ \A c \in DOMAIN last.writes :
                last.writes[c] = 1 /\ last.biomes[c] # "unset"
    /\ pc.at = "done" => last.dirty

\* A finished chunk of two sections below Y = 0 at a negative chunk
\* coordinate, with more than one biome in it.
C22_Witness ==
    /\ pc.at = "done"
    /\ last.dirty
    /\ last.section_count = 2
    /\ last.min_y < 0
    /\ last.pos[2] < 0
    /\ last.samples = 128
    /\ Cardinality({last.biomes[c] : c \in DOMAIN last.biomes}) > 1

\* ---- Claims about the seed of the End islands noise ----

\* The value the same call returns from an EndIslands built for world seed 0.
SeedZeroValue ==
    EndIslands_sample(EndIslands_new(0), last.block[1], last.block[2],
                      last.block[3])

\* The value of the islands density over a simplex generator that was
\* initialised from the world seed of the source that was asked.
WorldSeedValue ==
    EndIslands_sample([island_noise |-> [seed |-> sources[last.source].seed]],
                      last.block[1], last.block[2], last.block[3])

HexConverted == last.kind = "hex"

\* The integer a big-endian two's-complement byte array stands for, the first
\* byte carrying the sign; no bytes stand for 0.
RECURSIVE BigIntegerValue(_, _)
BigIntegerValue(bytes, n) ==
    IF n = 0 THEN 0
    ELSE IF n = 1 THEN (IF bytes[1] >= 128 THEN bytes[1] - 256 ELSE bytes[1])
    ELSE 256 * BigIntegerValue(bytes, n - 1) + bytes[n]

\* The digits of |v| in base 16 without leading zeros, for v # 0; a negative
\* v is divided without being negated.
RECURSIVE MagnitudeDigits(_)
MagnitudeDigits(v) ==
    LET r == v % 16
        digit == IF v > 0 \/ r = 0 THEN r ELSE 16 - r
        rest == IF v > 0 THEN v \div 16
                ELSE IF r = 0 THEN -(v \div 16) ELSE -(v \div 16) - 1
    IN (IF rest = 0 THEN <<>> ELSE MagnitudeDigits(rest))
          \o <<HexDigits[digit + 1]>>

\* BigInteger.toString(16)
BigIntegerToString16(v) ==
    IF v = 0 THEN <<"0">>
    ELSE IF v < 0 THEN <<"-">> \o MagnitudeDigits(v)
    ELSE MagnitudeDigits(v)

\* C24: signed_bytes_be_to_hex prints the signed big-endian integer of the
\* whole array in base 16 as BigInteger.toString(16) does: sign from the top
\* bit of the first byte, "-" and the magnitude when negative, no leading
\* zeros, "0" for an empty or all-zero array.
C24_SignedHexMatchesBigInteger ==
    HexConverted =>
       last.hex = BigIntegerToString16(BigIntegerValue(last.bytes,
                                                       Len(last.bytes)))

\* An array with a leading zero byte before a byte with its top bit set was
\* converted and printed without a sign.
C24_Witness ==
    /\ HexConverted
    /\ Len(last.bytes) >= 2
    /\ last.bytes[1] = 0
    /\ last.bytes[2] >= 128
    /\ Head(last.hex) # "-"

\* ---- Claims about the teleport handshake ----

Accepted == last.kind = "try_accept"

\* try_accept with the current id hands out the awaited position and clears
\* it; with any other id it returns None and changes nothing.
AcceptsOnlyCurrentId ==
    Accepted =>
       IF last.id = last.before.teleport_id
       THEN /\ last.result = last.before.awaiting_position
            /\ ~is_awaiting(ctx)
            /\ ctx.teleport_id = last.before.teleport_id
            /\ ctx.teleport_time = last.before.teleport_time
       ELSE last.result = None /\ ctx = last.before

\* A second acknowledgement of the id that was just acknowledged gets None.
SecondAcceptIsNone ==
    (Accepted /\ last.prev_kind = "try_accept" /\ last.prev_id = last.id)
       => last.result = None

\* C25 (as stated): try_accept confirms only the current teleport id and
\* leaves the state alone otherwise, so after any sequence of next_id and
\* try_accept calls an acknowledgement carrying a superseded id (one next_id
\* returned and has replaced since) never confirms the pending teleport, and
\* a second acknowledgement of one id returns None.
C25_SupersededIdNeverConfirms ==
    /\ AcceptsOnlyCurrentId
    /\ SecondAcceptIsNone
    /\ (Accepted /\ last.id \in last.superseded) => last.result = None

\* C25 (amended): as stated, except that a superseded id is refused only
\* until the counter has wrapped from i32::MAX to 0; after a wrap the
\* counter can return to a superseded id, which then confirms.
C25_SupersededIdRefusedBeforeWrap ==
    /\ AcceptsOnlyCurrentId
    /\ SecondAcceptIsNone
    /\ (Accepted /\ last.id \in last.superseded /\ ~last.wrapped)
          => last.result = None

\* A teleport was pending and an acknowledgement carrying a superseded id
\* arrived before any wrap: it was refused and the teleport is still pending.
C25_Witness ==
    /\ Accepted
    /\ last.id \in last.superseded
    /\ ~last.wrapped
    /\ is_awaiting(last.before)
    /\ last.result = None
    /\ is_awaiting(ctx)

\* ---- Claims about mojang_authenticate ----

AuthReturned == pc = "returned"

Failed(response) == ~response.ok \/ response.status # 200

\* The error one failed attempt stands for.
AttemptError(response) ==
    IF ~response.ok THEN [error |-> "FailedResponse", status |-> 0]
    ELSE IF response.status = 204
    THEN [error |-> "UnverifiedUsername", status |-> 0]
    ELSE [error |-> "UnknownStatusCode", status |-> response.status]

\* Every attempt before the last one received failed: a 200 is never
\* followed by another request.
RetriesOnlyAfterFailure ==
    \A i \in 1 .. Len(gen) - 1 : Failed(gen[i])

\* What is returned: on a 200 the parsed profile or FailedParse, otherwise
\* after the third failure the error of the third attempt.
ReturnsFirstOkOrLastError ==
    AuthReturned =>
       /\ last.kind = "auth"
       /\ Len(gen) >= 1
       /\ IF Failed(gen[Len(gen)])
          THEN /\ Len(gen) = 3
               /\ last.result = [ok |-> FALSE,
                                 error |-> AttemptError(gen[3])]
          ELSE IF gen[Len(gen)].body = "profile"
          THEN last.result = [ok |-> TRUE, profile |-> "profile"]
          ELSE last.result = [ok |-> FALSE,
                              error |-> [error |-> "FailedParse",
                                         status |-> 0]]

EveryFieldComputed ==
    /\ last.after.valid
    /\ last.after.x = LastBlockX
    /\ last.after.z = LastBlockZ
    /\ \A id \in DOMAIN last.after.df :
          last.after.df[id] =
             Exec(FnBody(gen, id),
                  FlatEnv(last.after, LastBlockX, LastBlockZ, LastNoises), gen)
    /\ \A n \in DOMAIN last.after.router :
          last.after.router[n] =
             Exec(gen.routers[n].body,
                  FlatEnv(last.after, LastBlockX, LastBlockZ, LastNoises), gen)

\* The call ran the compute statement of every field and then set valid.
RanEveryStatement ==
    /\ \A id \in DOMAIN last.after.df :
          [kind |-> "df", name |-> id] \in Range(last.log)
    /\ \A n \in DOMAIN last.after.router :
          [kind |-> "router", name |-> n] \in Range(last.log)
    /\ last.log # <<>>
    /\ last.log[Len(last.log)].kind = "valid"

ClimateSamplers ==
    {i \in SamplerIds : samplers[i] # NoSampler /\ samplers[i].dim # "End"}

\* A cache that is valid stays valid while its sampler lives.
ValidStaysValid ==
    \A i \in ClimateSamplers :
       (samplers[i].column_cache.valid /\ last'.kind = "sample")
          => samplers'[i].column_cache.valid

\* C27: a new column cache is not valid; the first ensure on it runs every
\* compute statement, also for the column (0, 0) the new cache already
\* names; valid never goes back to false; and the fields a climate sampler's
\* routers read are all computed for the column asked about.
C27_FirstEnsureComputesEverything ==
    /\ [](last.kind = "none" =>
             \A i \in ClimateSamplers : ~samplers[i].column_cache.valid)
    /\ []((ClimateSample /\ ~last.before.valid) => RanEveryStatement)
    /\ [](ClimateSample => EveryFieldComputed)
    /\ [][ValidStaysValid]_vars

\* The first call on a new sampler asked about column (0, 0), and a cached
\* named function and a cached router got values other than the default 0.0.
C27_Witness ==
    /\ ClimateSample
    /\ ~last.before.valid
    /\ LastBlockX = 0
    /\ LastBlockZ = 0
    /\ last.before.x = 0
    /\ last.before.z = 0
    /\ \E id \in DOMAIN last.after.df : last.after.df[id] # Zero
    /\ \E n \in DOMAIN last.after.router : last.after.router[n] # Zero

\* ---- Claims about the generated noise bundle ----

RECURSIVE NoisesIn(_)
\* The noise ids a tree names itself, References not followed.
NoisesIn(df) ==
    (CASE df.kind \in {"Noise", "ShiftA", "ShiftB", "Shift", "ShiftedNoise",
                       "WeirdScaledSampler"} -> {df.noise_id}
       [] df.kind = "BlendedNoise" -> {"offset"}
       [] OTHER -> {})
    \cup UNION {NoisesIn(c) : c \in Children(df)}

\* The noise ids of the router roots and of every definition reachable from
\* them.
ReachableNoises(inp) ==
    UNION {NoisesIn(inp.router_entries[n]) : n \in DOMAIN inp.router_entries}
    \cup UNION {NoisesIn(inp.registry[id]) :
                  id \in Reachable(inp) \cap DOMAIN inp.registry}

\* The noise fields the generated functions sample, spline helpers included.
GeneratedNoiseUses ==
    UNION {CodeNoises(gen.named_fns[i].body) : i \in DOMAIN gen.named_fns}
    \cup UNION {CodeNoises(gen.routers[n].body) : n \in DOMAIN gen.routers}

\* C28: the collected noise ids are exactly the noise ids of the definitions
\* reachable from the router roots (a blended-noise node counting as the
\* offset noise), the generated bundle declares one field for each of them,
\* and every noise field a generated function samples is declared.
C28_NoiseBundleCoversReachable ==
    /\ Analyzed => ctx.noise_ids = ReachableNoises(input)
    /\ pc = "generated" =>
          /\ gen.noises = ctx.noise_ids
          /\ GeneratedNoiseUses \subseteq gen.noises

\* Code was generated for an input with a reachable blended-noise node, a
\* noise reached only through a named definition, and an unreachable
\* definition whose noise is left out of the bundle.
C28_Witness ==
    /\ pc = "generated"
    /\ "offset" \in gen.noises
    /\ \E id \in Reachable(input) \cap DOMAIN input.registry :
          NoisesIn(input.registry[id]) \ 
             UNION {NoisesIn(input.router_entries[n]) :
                      n \in DOMAIN input.router_entries} # {}
    /\ \E id \in DOMAIN input.registry \ Reachable(input) :
          NoisesIn(input.registry[id]) \ gen.noises # {}
    /\ GeneratedNoiseUses # {}

\* ---- Claims about the indices evaluate_spline reads ----

PointIndices == 0 .. Len(input.locations) - 1

Emitted == pc = "emitted"

HelperNames == gen.named_helpers \o gen.router_helpers

\* C30: two different inputs (named-function ids, noise ids, router names)
\* never receive the same generated name in the same scope, and the spline
\* helper names are all different across the named-function and the router
\* output and from every other function, so the generated code holds no two
\* items of one name.
C30_GeneratedNamesDistinct ==
    Emitted =>
       /\ gen.names[1] \cap gen.names[2] = {}
       /\ NoDuplicates(HelperNames)
       /\ \A i \in DOMAIN HelperNames :
             [scope |-> "fn", name |-> HelperNames[i]]
                \notin gen.names[1] \cup gen.names[2]

====
